---- MODULE Spec2Model ----
(***************************************************************************)
(* The validator federation of the Hedera <-> EVM bridge: the transfer     *)
(* state machine of every validator, the signature protocol on the bridge  *)
(* topic, the Ethereum mint task and the receipt waiters.                  *)
(***************************************************************************)
EXTENDS Integers, Sequences, FiniteSets, TLC

(***************************************************************************)
(* Bounds of the model.                                                    *)
(***************************************************************************)
\* topic messages that do not come from a validator's own handlers
MaxInjected == 1
\* deliveries of the same transfer to the read-only node
MaxDeliveries == 2
\* credit transactions of the bridge account on the mirror node
MaxCredits == 2
\* the watchers' maxRetries, a value of the configuration
MaxRetries == 2
\* messages of the bridge topic that reach consensus
MaxTopicMessages == 2
\* restarts of the validator's process
MaxReboots == 1

(***************************************************************************)
(* The federation, the bridge contract and the transfer being bridged.     *)
(***************************************************************************)
Validators == {"v1", "v2"}
Intruder == "intruder"
\* contractsService.IsMember: every validator's signer address is a member
Members == Validators
IsMember(address) == address \in Members
\* the contract's threshold, ceil(2M/3)
Threshold == (2 * Cardinality(Members) + 2) \div 3
BridgeContractAddress == "0xBridge"

\* a transfer the repository holds no row for
NoRow == [status |-> "NoRow"]
HasRow(row) == row.status # "NoRow"
NoHash == ""
TransferID == "0.0.1-0001-0001"
\* the credit every validator observes on the bridge account
TheTransfer ==
  [transferID |-> TransferID, receiver |-> "0xReceiver", amount |-> "400",
   txReimbursement |-> "17", nativeToken |-> "HBAR"]

\* contractsService.ParseToken: the wrapped token of a native token
ParseToken(nativeToken) == IF nativeToken = "HBAR" THEN "0xWHBAR" ELSE "0xWToken"

StatusInitial == "Initial"
StatusSignatureSubmitted == "SignatureSubmitted"
StatusSignatureMined == "SignatureMined"
StatusEthTxSubmitted == "EthTxSubmitted"
StatusEthTxMined == "EthTxMined"
StatusEthTxReverted == "EthTxReverted"
StatusInsufficientFee == "InsufficientFee"
StatusSignatureFailed == "SignatureFailed"
StatusCompleted == "Completed"

(***************************************************************************)
(* The authorisation message and signatures.  The encoding is injective,   *)
(* so the tuple of the encoded fields stands for its bytes; a signature is *)
(* the signer's key applied to a digest, with a nonce that tells apart     *)
(* two byte strings of the same signer over the same digest.               *)
(***************************************************************************)
EncodeBytesFrom(transferID, wrappedToken, receiver, amount, txReimbursement) ==
  <<transferID, wrappedToken, receiver, amount, txReimbursement>>

Sign(signer, digest, nonce) ==
  [signer |-> signer, digest |-> digest, nonce |-> nonce, form |-> "ok"]
\* bytes that are no hex string, and a signature no key can be recovered from
UndecodableSignature ==
  [signer |-> "", digest |-> <<>>, nonce |-> 0, form |-> "undecodable"]
UnrecoverableSignature ==
  [signer |-> "", digest |-> <<>>, nonce |-> 0, form |-> "unrecoverable"]

\* ethhelper.DecodeSignature: fails on bytes that are no hex string
DecodeSignatureFails(signature) == signature.form = "undecodable"

\* crypto.Ecrecover + PubkeyToAddress: the signer when the signature is over
\* this digest, otherwise the address of some unrelated key
Ecrecover(authMsgBytes, signature) ==
  IF signature.form # "ok" THEN [err |-> "recover", address |-> ""]
  ELSE IF signature.digest = authMsgBytes
       THEN [err |-> "nil", address |-> signature.signer]
       ELSE [err |-> "nil", address |-> "0xUnrelated"]

(***************************************************************************)
(* The Transfer repository.  A row carries the transfer's data, its status *)
(* and the Ethereum transaction hash; every status update is a conditional *)
(* update on the allowed predecessor states and changes nothing otherwise. *)
(***************************************************************************)
NewRow(tm) ==
  [status |-> StatusInitial, ethTxHash |-> NoHash, ethTxMsgStatus |-> "",
   receiver |-> tm.receiver, amount |-> tm.amount,
   txReimbursement |-> tm.txReimbursement, nativeToken |-> tm.nativeToken,
   wrappedToken |-> ParseToken(tm.nativeToken)]

ConditionalUpdate(row, predecessors, status) ==
  IF HasRow(row) /\ row.status \in predecessors
  THEN [row EXCEPT !.status = status]
  ELSE row

UpdateStatusInsufficientFee(row) ==
  ConditionalUpdate(row, {StatusInitial, StatusSignatureSubmitted}, StatusInsufficientFee)
UpdateStatusSignatureSubmitted(row) ==
  ConditionalUpdate(row, {StatusInitial}, StatusSignatureSubmitted)
UpdateStatusSignatureMined(row) ==
  ConditionalUpdate(row, {StatusSignatureSubmitted}, StatusSignatureMined)
UpdateStatusSignatureFailed(row) ==
  ConditionalUpdate(row, {StatusInitial, StatusSignatureSubmitted}, StatusSignatureFailed)

\* an UpdateEthTxSubmitted that also writes a row that is EthTxSubmitted
UpdateEthTxSubmittedAgain(row, hash) ==
  IF HasRow(row) /\ row.status \in {StatusSignatureMined, StatusEthTxSubmitted}
  THEN [row EXCEPT !.status = StatusEthTxSubmitted, !.ethTxHash = hash]
  ELSE row

UpdateEthTxSubmitted(row, hash) ==
  IF HasRow(row) /\ row.status = StatusSignatureMined
  THEN [row EXCEPT !.status = StatusEthTxSubmitted, !.ethTxHash = hash]
  ELSE row
UpdateEthTxMined(row) ==
  ConditionalUpdate(row, {StatusEthTxSubmitted}, StatusEthTxMined)
UpdateEthTxReverted(row) ==
  ConditionalUpdate(row, {StatusEthTxSubmitted}, StatusEthTxReverted)

UpdateStatusCompleted(row) ==
  ConditionalUpdate(row, {StatusInitial}, StatusCompleted)

\* the status of the hash topic message is a column of its own
UpdateStatusEthTxMsg(row, msgStatus) ==
  IF HasRow(row) THEN [row EXCEPT !.ethTxMsgStatus = msgStatus] ELSE row

(***************************************************************************)
(* The Message repository: a table of signature records.                   *)
(***************************************************************************)
Exist(table, transferID, signature, hash) ==
  \E m \in table :
    m.transferID = transferID /\ m.signature = signature /\ m.hash = hash

\* an insert that knows only the uniqueness of (transfer_id, signature)
CreateUniqueSignature(table, record) ==
  IF \E m \in table :
       m.transferID = record.transferID /\ m.signature = record.signature
  THEN table
  ELSE table \cup {record}

\* insert under the uniqueness of (transfer_id, signature) and of
\* (transfer_id, signer); a collision is ignored
Create(table, record) ==
  IF \E m \in table :
       /\ m.transferID = record.transferID
       /\ (m.signature = record.signature \/ m.signer = record.signer)
  THEN table
  ELSE table \cup {record}

Get(table, transferID) == {m \in table : m.transferID = transferID}

(***************************************************************************)
(* The messages service.                                                   *)
(***************************************************************************)
\* a SanityCheckSignature that does not compare the amounts
SanityCheckSignatureNoAmount(row, topicMessage) ==
  LET wrappedToken == ParseToken(row.nativeToken)
  IN  /\ row.receiver = topicMessage.receiver
      /\ row.txReimbursement = topicMessage.txReimbursement
      /\ topicMessage.wrappedToken = wrappedToken

\* SanityCheckSignature, once awaitTransfer has returned the row
SanityCheckSignature(row, topicMessage) ==
  LET wrappedToken == ParseToken(row.nativeToken)
  IN  /\ row.receiver = topicMessage.receiver
      /\ row.amount = topicMessage.amount
      /\ row.txReimbursement = topicMessage.txReimbursement
      /\ topicMessage.wrappedToken = wrappedToken

\* a verifySignature that does not ask the contract for membership
verifySignatureAnySigner(authMsgBytes, signatureBytes) ==
  LET recovered == Ecrecover(authMsgBytes, signatureBytes)
  IN  IF recovered.err # "nil" THEN [err |-> recovered.err, address |-> ""]
      ELSE [err |-> "nil", address |-> recovered.address]

verifySignature(authMsgBytes, signatureBytes) ==
  LET recovered == Ecrecover(authMsgBytes, signatureBytes)
  IN  IF recovered.err # "nil" THEN [err |-> recovered.err, address |-> ""]
      ELSE IF ~IsMember(recovered.address)
           THEN [err |-> "signer is not signatures member", address |-> ""]
           ELSE [err |-> "nil", address |-> recovered.address]

\* ProcessSignature: the error it returns and the Message table it leaves
ProcessSignature(table, tsm, transactionTimestamp) ==
  LET authMsgBytes ==
        EncodeBytesFrom(tsm.transferID, tsm.wrappedToken, tsm.receiver,
                        tsm.amount, tsm.txReimbursement)
      verified == verifySignature(authMsgBytes, tsm.signature)
  IN  IF DecodeSignatureFails(tsm.signature)
      THEN [err |-> "decode", table |-> table]
      ELSE IF Exist(table, tsm.transferID, tsm.signature, authMsgBytes)
           \* "Signature already received": the error returned is the nil of
           \* the existence check
           THEN [err |-> "nil", table |-> table]
           ELSE IF verified.err # "nil"
                THEN [err |-> verified.err, table |-> table]
                ELSE [err |-> "nil",
                      table |-> Create(table,
                                  [transferID |-> tsm.transferID,
                                   signature |-> tsm.signature,
                                   hash |-> authMsgBytes,
                                   signer |-> verified.address,
                                   transactionTimestamp |-> transactionTimestamp])]

\* a signature loop that does not keep the addresses it has checked
RECURSIVE CheckSignaturesNoDistinct(_, _, _)
CheckSignaturesNoDistinct(messageHash, signatures, checkedAddresses) ==
  IF signatures = <<>> THEN [ok |-> TRUE, err |-> "nil"]
  ELSE LET recovered == Ecrecover(messageHash, Head(signatures))
       IN  IF recovered.err # "nil" THEN [ok |-> FALSE, err |-> recovered.err]
           ELSE IF ~IsMember(recovered.address)
                THEN [ok |-> FALSE, err |-> "nil"]
                ELSE CheckSignaturesNoDistinct(messageHash, Tail(signatures), {})

\* the signature loop of VerifyEthereumTxAuthenticity
RECURSIVE CheckSignatures(_, _, _)
CheckSignatures(messageHash, signatures, checkedAddresses) ==
  IF signatures = <<>> THEN [ok |-> TRUE, err |-> "nil"]
  ELSE LET recovered == Ecrecover(messageHash, Head(signatures))
       IN  IF recovered.err # "nil" THEN [ok |-> FALSE, err |-> recovered.err]
           ELSE IF recovered.address \in checkedAddresses
                THEN [ok |-> FALSE, err |-> "nil"]
                ELSE IF ~IsMember(recovered.address)
                     THEN [ok |-> FALSE, err |-> "nil"]
                     ELSE CheckSignatures(messageHash, Tail(signatures),
                                          checkedAddresses \cup {recovered.address})

\* a VerifyEthereumTxAuthenticity that accepts the transaction when the
\* node has no row to compare it with
VerifyEthereumTxAuthenticityNoRow(row, ethTxMessage, chain) ==
  IF ethTxMessage.ethTxHash \notin DOMAIN chain
  THEN [ok |-> FALSE, err |-> "not found"]
  ELSE LET tx == chain[ethTxMessage.ethTxHash]
       IN  IF tx.to # BridgeContractAddress THEN [ok |-> FALSE, err |-> "nil"]
           ELSE IF tx.transferID # ethTxMessage.transferID
                THEN [ok |-> FALSE, err |-> "nil"]
                ELSE IF ~HasRow(row) THEN [ok |-> TRUE, err |-> "nil"]
                ELSE IF \/ row.amount # tx.amount
                        \/ row.receiver # tx.receiver
                        \/ row.txReimbursement # tx.txReimbursement
                        \/ tx.wrappedToken # row.wrappedToken
                     THEN [ok |-> FALSE, err |-> "nil"]
                     ELSE CheckSignatures(
                            EncodeBytesFrom(tx.transferID, tx.wrappedToken, tx.receiver,
                                            tx.amount, tx.txReimbursement),
                            tx.signatures, {})

\* VerifyEthereumTxAuthenticity: chain maps the hashes of the Ethereum
\* transactions that exist to their content
VerifyEthereumTxAuthenticity(row, ethTxMessage, chain) ==
  IF ethTxMessage.ethTxHash \notin DOMAIN chain
  THEN [ok |-> FALSE, err |-> "not found"]
  ELSE LET tx == chain[ethTxMessage.ethTxHash]
       IN  IF tx.to # BridgeContractAddress THEN [ok |-> FALSE, err |-> "nil"]
           ELSE IF tx.transferID # ethTxMessage.transferID
                THEN [ok |-> FALSE, err |-> "nil"]
                ELSE IF ~HasRow(row) THEN [ok |-> FALSE, err |-> "nil"]
                ELSE IF \/ row.amount # tx.amount
                        \/ row.receiver # tx.receiver
                        \/ row.txReimbursement # tx.txReimbursement
                        \/ tx.wrappedToken # row.wrappedToken
                     THEN [ok |-> FALSE, err |-> "nil"]
                     ELSE CheckSignatures(
                            EncodeBytesFrom(tx.transferID, tx.wrappedToken, tx.receiver,
                                            tx.amount, tx.txReimbursement),
                            tx.signatures, {})

(***************************************************************************)
(* The state of the federation.                                            *)
(***************************************************************************)
VARIABLES
  transfers,       \* per validator: the Transfer row of the transfer
  messages,        \* per validator: the Message table
  quorumReached,   \* per validator: the quorum action was taken
  topic,           \* the bridge topic, in consensus order
  cursor,          \* per validator: topic messages handled so far
  chain,           \* the Ethereum transactions that exist, by hash
  mintTask,        \* per validator: the Ethereum mint task and its position
  waiters,         \* per validator: the receipt waiters that are registered
  waitersStarted,  \* per validator: WaitForTransaction calls made
  injected,        \* topic messages published by parties other than the handlers
  roTransfer,      \* the read-only node: the Transfer row of the transfer
  roPc,            \* the read-only node: the position of its burn handler
  roDeliveries,    \* the read-only node: deliveries of the transfer so far
  roSchedules      \* the read-only node: the Schedule table

federation ==
  <<transfers, messages, quorumReached, topic, cursor, chain, mintTask,
    waiters, waitersStarted, injected>>
readOnly == <<roTransfer, roPc, roDeliveries, roSchedules>>

VARIABLES
  credits,         \* the mirror node: the credit transactions of the bridge account
  accountStatus,   \* the Status repository: last_fetched of the bridge account
  ctw,             \* the transfer watcher: its goroutine's position and fields
  ctwTasks,        \* the processTransaction goroutines started and not yet run
  ctwBatches,      \* the non-empty batches the transfer watcher has fetched
  ctwRestarts,     \* the Watch goroutines that restart has started
  queue            \* the queue: the events published, in the order of publishing

transferWatcher ==
  <<credits, accountStatus, ctw, ctwTasks, ctwBatches, ctwRestarts, queue>>

VARIABLES
  consensus,       \* the mirror node: the topic messages that reached consensus
  topicStatus,     \* the Status repository: last_fetched of the bridge topic
  tw,              \* the topic watcher: its goroutine's position and fields
  twRestarts,      \* the Watch goroutines that restart has started in this run
  reboots          \* the restarts of the validator's process

topicWatcher == <<consensus, topicStatus, tw, twRestarts, reboots>>
VARIABLES
  rw               \* per validator: the goroutine that waits for a receipt

receiptWaiter == <<rw>>
watchers == <<transferWatcher, topicWatcher, receiptWaiter>>
vars == <<federation, readOnly, watchers>>

\* the outcomes of a call that can fail in transit (RPC, DB)
NoFaults == {TRUE}
Faults == {TRUE, FALSE}

\* the hash of the mint transaction a validator broadcasts
MintHash(n) == "0xMint-" \o n
ForgedHash == "0xForged"
UnknownHash == "0xUnknown"

AuthMsg(tm) ==
  EncodeBytesFrom(tm.transferID, ParseToken(tm.nativeToken), tm.receiver,
                  tm.amount, tm.txReimbursement)

\* message.NewSignature
NewSignature(publisher, transferID, receiver, amount, txReimbursement, signature, wrappedToken) ==
  [type |-> "EthSignature", publisher |-> publisher, transferID |-> transferID,
   receiver |-> receiver, amount |-> amount, txReimbursement |-> txReimbursement,
   signature |-> signature, wrappedToken |-> wrappedToken]

\* message.NewEthereumHash
NewEthereumHash(publisher, transferID, messageHash, ethereumTxHash) ==
  [type |-> "EthTransaction", publisher |-> publisher, transferID |-> transferID,
   hash |-> messageHash, ethTxHash |-> ethereumTxHash]

\* GetLastFetchedTimestamp finds no record
NoTimestamp == -1
\* the startTimestamp of the configuration
StartTimestamp == 0

\* NewWatcher: the transfer watcher main is about to call Watch on
NewWatcher ==
  [pc |-> "Watch", maxRetries |-> MaxRetries, milestoneTimestamp |-> StartTimestamp]

\* no goroutine of WaitForTransaction is running
NoWaiter ==
  [pc |-> "idle", hash |-> NoHash, receipt |-> [isPending |-> TRUE, status |-> 0]]

NoTask == [pc |-> "idle", signatures |-> <<>>, messageHash |-> <<>>]

Init ==
  /\ transfers = [n \in Validators |-> NoRow]
  /\ messages = [n \in Validators |-> {}]
  /\ quorumReached = [n \in Validators |-> FALSE]
  /\ topic = <<>>
  /\ cursor = [n \in Validators |-> 0]
  /\ chain = [h \in {} |-> NoRow]
  /\ mintTask = [n \in Validators |-> NoTask]
  /\ waiters = [n \in Validators |-> <<>>]
  /\ waitersStarted = [n \in Validators |-> 0]
  /\ injected = 0
  /\ roTransfer = NoRow
  /\ roPc = "idle"
  /\ roDeliveries = 0
  /\ roSchedules = {}
  /\ credits = <<>>
  /\ accountStatus = NoTimestamp
  /\ ctw = NewWatcher
  /\ ctwTasks = {}
  /\ ctwBatches = 0
  /\ ctwRestarts = 0
  /\ queue = <<>>
  /\ consensus = 0
  /\ topicStatus = NoTimestamp
  /\ tw = [pc |-> "new", maxRetries |-> MaxRetries, started |-> FALSE,
           startTimestamp |-> NoTimestamp, milestoneTimestamp |-> NoTimestamp,
           unprocessed |-> <<>>, next |-> 0]
  /\ twRestarts = 0
  /\ reboots = 0
  /\ rw = [n \in Validators |-> NoWaiter]

(***************************************************************************)
(* The transfers service and the handler of credit transfers.              *)
(***************************************************************************)
\* an InitiateNewTransfer that writes the row anew on every call
InitiateNewTransferOverwrite(row, tm) == NewRow(tm)

\* InitiateNewTransfer: the stored row, inserted as Initial when there is none
InitiateNewTransfer(row, tm) == IF HasRow(row) THEN row ELSE NewRow(tm)

\* a ProcessTransfer that signs and publishes although VerifyFee failed
ProcessTransferFeeIgnored(n, row, tm, feeOk, accepted) ==
  IF ~accepted
  THEN /\ transfers' = [transfers EXCEPT ![n] = UpdateStatusSignatureFailed(row)]
       /\ UNCHANGED topic
  ELSE /\ topic' = Append(topic,
                     NewSignature(n, tm.transferID, tm.receiver, tm.amount,
                                  tm.txReimbursement, Sign(n, AuthMsg(tm), 0),
                                  ParseToken(tm.nativeToken)))
       /\ transfers' = [transfers EXCEPT ![n] =
                          IF feeOk THEN UpdateStatusSignatureSubmitted(row)
                          ELSE UpdateStatusInsufficientFee(row)]

\* ProcessTransfer: sign the authorisation message and submit it to the topic
ProcessTransfer(n, row, tm, feeOk, accepted) ==
  IF ~feeOk
  THEN /\ transfers' = [transfers EXCEPT ![n] = UpdateStatusInsufficientFee(row)]
       /\ UNCHANGED topic
  ELSE IF ~accepted
       THEN /\ transfers' = [transfers EXCEPT ![n] = UpdateStatusSignatureFailed(row)]
            /\ UNCHANGED topic
       ELSE /\ topic' = Append(topic,
                          NewSignature(n, tm.transferID, tm.receiver, tm.amount,
                                       tm.txReimbursement, Sign(n, AuthMsg(tm), 0),
                                       ParseToken(tm.nativeToken)))
            /\ transfers' = [transfers EXCEPT ![n] = UpdateStatusSignatureSubmitted(row)]

\* handlers that go on whatever the status of the returned row
SkipsNever(transactionRecord) == FALSE

\* the handlers' check of the row InitiateNewTransfer returned: "Previously
\* added with status ... Skipping further execution"
SkipsFurtherExecution(transactionRecord) == transactionRecord.status # StatusInitial

\* the crypto-transfer handler: one delivery of the credit to validator n
CryptoTransferHandle(n, feeOk, accepted) ==
  LET transactionRecord == InitiateNewTransfer(transfers[n], TheTransfer)
  IN  /\ IF SkipsFurtherExecution(transactionRecord)
         THEN UNCHANGED <<transfers, topic>>
         ELSE ProcessTransfer(n, transactionRecord, TheTransfer, feeOk, accepted)
      /\ UNCHANGED <<messages, quorumReached, cursor, chain, mintTask, waiters,
                     waitersStarted, injected, readOnly, watchers>>

\* the mirror node reports the validator's own signature message as mined
SignatureMinedCallback(n) ==
  /\ HasRow(transfers[n])
  /\ transfers[n].status = StatusSignatureSubmitted
  /\ transfers' = [transfers EXCEPT ![n] = UpdateStatusSignatureMined(@)]
  /\ UNCHANGED <<messages, quorumReached, topic, cursor, chain, mintTask, waiters,
                 waitersStarted, injected, readOnly, watchers>>

(***************************************************************************)
(* The handler of topic messages.                                          *)
(***************************************************************************)
\* the stored message with the earliest consensus timestamp
Earliest(stored) ==
  CHOOSE m \in stored :
    \A other \in stored : m.transactionTimestamp <= other.transactionTimestamp

\* the submitter election: the signer of rank 0 among the stored messages
\* ordered by (transaction_timestamp, signer)
Submitter(stored) == Earliest(stored).signer

\* an election every validator wins
IsElectedAlways(n, stored) == TRUE

\* the election as validator n decides it
IsElected(n, stored) == Submitter(stored) = n

\* getSignatures: the signatures of the stored messages, in a fixed order
RECURSIVE getSignatures(_)
getSignatures(stored) ==
  IF stored = {} THEN <<>>
  ELSE <<Earliest(stored).signature>> \o getSignatures(stored \ {Earliest(stored)})

\* prepareEthereumMintTask: the task is handed to the scheduler
prepareEthereumMintTask(signatures, messageHash) ==
  [pc |-> "scheduled", signatures |-> signatures, messageHash |-> messageHash]

\* a handleSignatureMessage that calls ProcessSignature whatever
\* SanityCheckSignature returned
HandleSignatureMessageUnchecked(n, tm, transactionTimestamp) ==
  LET processed == ProcessSignature(messages[n], tm, transactionTimestamp)
      stored == Get(processed.table, tm.transferID)
      majority == /\ processed.err = "nil"
                  /\ Cardinality(stored) >= Threshold
                  /\ ~quorumReached[n]
      elected == majority /\ IsElected(n, stored)
  IN  /\ HasRow(transfers[n])
      /\ messages' = [messages EXCEPT ![n] = processed.table]
      /\ quorumReached' = [quorumReached EXCEPT ![n] = @ \/ majority]
      /\ mintTask' =
           IF elected
           THEN [mintTask EXCEPT ![n] =
                   prepareEthereumMintTask(getSignatures(stored), Earliest(stored).hash)]
           ELSE mintTask
      /\ transfers' =
           IF majority /\ ~elected
           THEN [transfers EXCEPT ![n] = UpdateStatusSignatureMined(@)]
           ELSE transfers
      /\ UNCHANGED <<waiters, waitersStarted>>

\* handleSignatureMessage: sanity check, ProcessSignature, then the majority
\* check and the submitter election
HandleSignatureMessage(n, tm, transactionTimestamp) ==
  LET valid == SanityCheckSignature(transfers[n], tm)
      processed == ProcessSignature(messages[n], tm, transactionTimestamp)
      stored == Get(processed.table, tm.transferID)
      majority == /\ valid
                  /\ processed.err = "nil"
                  /\ Cardinality(stored) >= Threshold
                  /\ ~quorumReached[n]
      elected == majority /\ IsElected(n, stored)
  IN  \* awaitTransfer returns once the transfer row is there
      /\ HasRow(transfers[n])
      /\ messages' = [messages EXCEPT ![n] = IF valid THEN processed.table ELSE @]
      /\ quorumReached' = [quorumReached EXCEPT ![n] = @ \/ majority]
      /\ mintTask' =
           IF elected
           THEN [mintTask EXCEPT ![n] =
                   prepareEthereumMintTask(getSignatures(stored), Earliest(stored).hash)]
           ELSE mintTask
      /\ transfers' =
           IF majority /\ ~elected
           THEN [transfers EXCEPT ![n] = UpdateStatusSignatureMined(@)]
           ELSE transfers
      /\ UNCHANGED <<waiters, waitersStarted>>

\* a ProcessEthereumTxMessage that writes the row with Save, whatever its status
ProcessEthereumTxMessageSave(n, etm) ==
  /\ transfers' = [transfers EXCEPT ![n] =
                     [@ EXCEPT !.status = StatusEthTxSubmitted,
                               !.ethTxHash = etm.ethTxHash]]
  /\ waiters' = [waiters EXCEPT ![n] = Append(@, etm.ethTxHash)]
  /\ waitersStarted' = [waitersStarted EXCEPT ![n] = @ + 1]

\* a ProcessEthereumTxMessage that writes the hash apart from the status
ProcessEthereumTxMessageHashFirst(n, etm) ==
  /\ transfers' = [transfers EXCEPT ![n] =
                     [UpdateEthTxSubmitted(@, etm.ethTxHash) EXCEPT
                        !.ethTxHash = etm.ethTxHash]]
  /\ waiters' = [waiters EXCEPT ![n] = Append(@, etm.ethTxHash)]
  /\ waitersStarted' = [waitersStarted EXCEPT ![n] = @ + 1]

\* ProcessEthereumTxMessage: the row after the update, and the waiter
ProcessEthereumTxMessage(n, etm) ==
  /\ transfers' = [transfers EXCEPT ![n] = UpdateEthTxSubmitted(@, etm.ethTxHash)]
  /\ waiters' = [waiters EXCEPT ![n] = Append(@, etm.ethTxHash)]
  /\ waitersStarted' = [waitersStarted EXCEPT ![n] = @ + 1]

\* handleEthTxMessage: authenticity check, then ProcessEthereumTxMessage
HandleEthTxMessage(n, tm) ==
  /\ IF VerifyEthereumTxAuthenticity(transfers[n], tm, chain).ok
     THEN ProcessEthereumTxMessage(n, tm)
     ELSE UNCHANGED <<transfers, waiters, waitersStarted>>
  /\ UNCHANGED <<messages, quorumReached, mintTask>>

\* validator n handles the next message of the topic
TopicMessageHandle(n) ==
  /\ cursor[n] < Len(topic)
  /\ LET transactionTimestamp == cursor[n] + 1
         tm == topic[transactionTimestamp]
     IN  IF tm.type = "EthSignature"
         THEN HandleSignatureMessage(n, tm, transactionTimestamp)
         ELSE HandleEthTxMessage(n, tm)
  /\ cursor' = [cursor EXCEPT ![n] = @ + 1]
  /\ UNCHANGED <<topic, chain, injected, readOnly, watchers>>

(***************************************************************************)
(* The Ethereum mint task of the elected submitter, step by step: every    *)
(* call to the Ethereum node, the repository and the topic is a point      *)
(* where other handlers and callbacks run.                                 *)
(***************************************************************************)
\* TransactionByHash reports the transaction as pending until it is mined
PendingReceipt == [isPending |-> TRUE, status |-> 0]

Returned == [pc |-> "returned", signatures |-> <<>>, messageHash |-> <<>>]

\* NewKeyTransactor and SubmitSignatures
MintSubmitSignatures(n, ok) ==
  /\ mintTask[n].pc = "scheduled"
  /\ IF ok
     THEN /\ chain' =
               chain @@ (MintHash(n) :>
                 [to |-> BridgeContractAddress, transferID |-> TransferID,
                  receiver |-> transfers[n].receiver, amount |-> transfers[n].amount,
                  txReimbursement |-> transfers[n].txReimbursement,
                  wrappedToken |-> transfers[n].wrappedToken,
                  signatures |-> mintTask[n].signatures, receipt |-> PendingReceipt])
          /\ mintTask' = [mintTask EXCEPT ![n].pc = "broadcast"]
     ELSE /\ mintTask' = [mintTask EXCEPT ![n] = Returned]
          /\ UNCHANGED chain
  /\ UNCHANGED <<transfers, messages, quorumReached, topic, cursor, waiters,
                 waitersStarted, injected, readOnly, watchers>>

\* UpdateEthTxSubmitted with the broadcast hash, then WaitForTransaction
MintUpdateEthTxSubmitted(n, ok) ==
  /\ mintTask[n].pc = "broadcast"
  /\ IF ok
     THEN /\ transfers' = [transfers EXCEPT ![n] = UpdateEthTxSubmitted(@, MintHash(n))]
          /\ waiters' = [waiters EXCEPT ![n] = Append(@, MintHash(n))]
          /\ waitersStarted' = [waitersStarted EXCEPT ![n] = @ + 1]
          /\ mintTask' = [mintTask EXCEPT ![n].pc = "waiting"]
     ELSE /\ mintTask' = [mintTask EXCEPT ![n] = Returned]
          /\ UNCHANGED <<transfers, waiters, waitersStarted>>
  /\ UNCHANGED <<messages, quorumReached, topic, cursor, chain, injected, readOnly, watchers>>

\* submitEthTxTopicMessage, then UpdateStatusEthTxMsgSubmitted and the wait
\* for the topic message
MintSubmitEthTxTopicMessage(n, submitted, updated) ==
  /\ mintTask[n].pc = "waiting"
  /\ IF submitted
     THEN /\ topic' = Append(topic,
                        NewEthereumHash(n, TransferID, mintTask[n].messageHash, MintHash(n)))
          /\ IF updated
             THEN /\ transfers' = [transfers EXCEPT ![n] =
                                     UpdateStatusEthTxMsg(@, "EthTxMsgSubmitted")]
                  /\ mintTask' = [mintTask EXCEPT ![n].pc = "published"]
             ELSE /\ mintTask' = [mintTask EXCEPT ![n] = Returned]
                  /\ UNCHANGED transfers
     ELSE /\ mintTask' = [mintTask EXCEPT ![n] = Returned]
          /\ UNCHANGED <<topic, transfers>>
  /\ UNCHANGED <<messages, quorumReached, cursor, chain, waiters, waitersStarted,
                 injected, readOnly, watchers>>

\* hcsTxCallbacks: the hash topic message was mined, or failed
hcsTxCallbacks(n, success) ==
  /\ mintTask[n].pc = "published"
  /\ transfers' = [transfers EXCEPT ![n] =
                     UpdateStatusEthTxMsg(@, IF success THEN "EthTxMsgMined"
                                                        ELSE "EthTxMsgFailed")]
  /\ mintTask' = [mintTask EXCEPT ![n].pc = "done"]
  /\ UNCHANGED <<messages, quorumReached, topic, cursor, chain, waiters,
                 waitersStarted, injected, readOnly, watchers>>

(***************************************************************************)
(* The Ethereum chain and the receipt waiters.                             *)
(***************************************************************************)
\* the bridge contract's multisig check of a mint: signatures of at least
\* Threshold distinct members over the digest of the arguments, and no mint of
\* the transfer before
ContractAccepts(h) ==
  LET tx == chain[h]
      digest == EncodeBytesFrom(tx.transferID, tx.wrappedToken, tx.receiver,
                                tx.amount, tx.txReimbursement)
      signers == {Ecrecover(digest, tx.signatures[i]).address :
                    i \in {j \in 1..Len(tx.signatures) :
                             Ecrecover(digest, tx.signatures[j]).err = "nil"}}
  IN  /\ tx.to = BridgeContractAddress
      /\ Cardinality(signers \cap Members) >= Threshold
      /\ \A other \in DOMAIN chain :
           chain[other].receipt.isPending \/ chain[other].receipt.status = 0

\* the transaction is mined: its receipt has status 1 or 0, and status 1 only
\* if the contract accepts it
MineTx(h, receiptStatus) ==
  /\ h \in DOMAIN chain
  /\ chain[h].receipt.isPending
  /\ receiptStatus = 1 => ContractAccepts(h)
  /\ chain' = [chain EXCEPT ![h].receipt = [isPending |-> FALSE, status |-> receiptStatus]]
  /\ UNCHANGED <<transfers, messages, quorumReached, topic, cursor, mintTask,
                 waiters, waitersStarted, injected, readOnly, watchers>>

\* a WaitForTransactionSuccess that reports a receipt of status 0 as success
WaitForTransactionSuccessInverted(receipt) == receipt.status = 0

\* WaitForTransactionSuccess: true exactly for a receipt of status 1
WaitForTransactionSuccess(receipt) == receipt.status = 1

RemoveAt(seq, i) == SubSeq(seq, 1, i - 1) \o SubSeq(seq, i + 1, Len(seq))

\* ethTxCallbacks: the waiter i of validator n sees the receipt
ethTxCallbacks(n, i) ==
  /\ i \in 1..Len(waiters[n])
  /\ ~chain[waiters[n][i]].receipt.isPending
  /\ transfers' =
       [transfers EXCEPT ![n] =
          IF WaitForTransactionSuccess(chain[waiters[n][i]].receipt)
          THEN UpdateEthTxMined(@)
          ELSE UpdateEthTxReverted(@)]
  /\ waiters' = [waiters EXCEPT ![n] = RemoveAt(@, i)]
  /\ UNCHANGED <<messages, quorumReached, topic, cursor, chain, mintTask,
                 waitersStarted, injected, readOnly, watchers>>

(***************************************************************************)
(* The other parties.  The topic and the chain are public: anyone can      *)
(* publish a topic message or send a transaction to the bridge contract,   *)
(* and a member's key can sign more than once.                             *)
(***************************************************************************)
OtherReceiver == "0xOtherReceiver"
OtherAmount == "401"
OtherReimbursement == "18"
OtherToken == "0xWToken"

SignedBy(signer, receiver, amount, txReimbursement, wrappedToken) ==
  NewSignature(Intruder, TransferID, receiver, amount, txReimbursement,
               Sign(signer, EncodeBytesFrom(TransferID, wrappedToken, receiver,
                                            amount, txReimbursement), 1),
               wrappedToken)

WithSignature(signature) ==
  NewSignature(Intruder, TransferID, TheTransfer.receiver, TheTransfer.amount,
               TheTransfer.txReimbursement, signature,
               ParseToken(TheTransfer.nativeToken))

InjectedMessages ==
  LET tm == TheTransfer
      token == ParseToken(tm.nativeToken)
      member == CHOOSE m \in Members : TRUE
  IN  \* a member's signature over fields that differ from the transfer's
      {SignedBy(member, OtherReceiver, tm.amount, tm.txReimbursement, token),
       SignedBy(member, tm.receiver, OtherAmount, tm.txReimbursement, token),
       SignedBy(member, tm.receiver, tm.amount, OtherReimbursement, token),
       SignedBy(member, tm.receiver, tm.amount, tm.txReimbursement, OtherToken)}
      \* the transfer's fields, signed by a key that is no member's
      \cup {SignedBy(Intruder, tm.receiver, tm.amount, tm.txReimbursement, token)}
      \* a second signature of a member over the same digest
      \cup {SignedBy(m, tm.receiver, tm.amount, tm.txReimbursement, token) : m \in Members}
      \* a member's signature over another digest, and malformed signatures
      \cup {WithSignature(Sign(member, <<"other digest">>, 1)),
            WithSignature(UndecodableSignature),
            WithSignature(UnrecoverableSignature)}
      \* hash messages
      \cup {NewEthereumHash(Intruder, TransferID, AuthMsg(tm), h) :
              h \in {UnknownHash} \cup {MintHash(n) : n \in Validators}}

\* a topic message of another party reaches consensus
Inject(tm) ==
  /\ injected < MaxInjected
  /\ injected' = injected + 1
  /\ topic' = Append(topic, tm)
  /\ UNCHANGED <<transfers, messages, quorumReached, cursor, chain, mintTask,
                 waiters, waitersStarted, readOnly, watchers>>

\* a topic message is published once more, byte for byte
Replay(i) ==
  /\ i \in 1..Len(topic)
  /\ Inject([topic[i] EXCEPT !.publisher = Intruder])

\* the signatures anyone can read on the topic, in consensus order
RECURSIVE TopicSignatures(_)
TopicSignatures(published) ==
  IF published = <<>> THEN <<>>
  ELSE IF Head(published).type = "EthSignature"
       THEN <<Head(published).signature>> \o TopicSignatures(Tail(published))
       ELSE TopicSignatures(Tail(published))

ForgedTxs ==
  LET tm == TheTransfer
      token == ParseToken(tm.nativeToken)
      member == CHOOSE m \in Members : TRUE
      mint(to, receiver, signatures) ==
        [to |-> to, transferID |-> TransferID, receiver |-> receiver,
         amount |-> tm.amount, txReimbursement |-> tm.txReimbursement,
         wrappedToken |-> token, signatures |-> signatures,
         receipt |-> PendingReceipt]
      sig(signer, receiver, nonce) ==
        Sign(signer, EncodeBytesFrom(TransferID, token, receiver, tm.amount,
                                     tm.txReimbursement), nonce)
  IN  {mint("0xOtherContract", tm.receiver, <<>>),
       mint(BridgeContractAddress, OtherReceiver, <<sig(member, OtherReceiver, 1)>>),
       mint(BridgeContractAddress, tm.receiver, <<sig(Intruder, tm.receiver, 1)>>),
       mint(BridgeContractAddress, tm.receiver,
            <<sig(member, tm.receiver, 1), sig(member, tm.receiver, 2)>>),
       mint(BridgeContractAddress, tm.receiver, <<UnrecoverableSignature>>),
       mint(BridgeContractAddress, tm.receiver, <<>>),
       mint(BridgeContractAddress, tm.receiver, TopicSignatures(topic))}

\* a transaction that is not a validator's mint task's is sent to the bridge
\* contract, and a hash message naming it reaches consensus
InjectForged(tx) ==
  /\ ForgedHash \notin DOMAIN chain
  /\ injected < MaxInjected
  /\ injected' = injected + 1
  /\ chain' = chain @@ (ForgedHash :> tx)
  /\ topic' = Append(topic, NewEthereumHash(Intruder, TransferID, AuthMsg(TheTransfer),
                                            ForgedHash))
  /\ UNCHANGED <<transfers, messages, quorumReached, cursor, mintTask, waiters,
                 waitersStarted, readOnly, watchers>>

(***************************************************************************)
(* The read-only node: the handler of burn transfers.                      *)
(***************************************************************************)
\* Handle up to its lookup loop: one delivery of the transfer
BurnHandle ==
  LET transactionRecord == InitiateNewTransfer(roTransfer, TheTransfer)
  IN  /\ roPc = "idle"
      /\ roDeliveries < MaxDeliveries
      /\ roDeliveries' = roDeliveries + 1
      /\ roTransfer' = transactionRecord
      /\ roPc' = IF SkipsFurtherExecution(transactionRecord) THEN "idle" ELSE "lookup"
      /\ UNCHANGED <<roSchedules, federation, watchers>>

\* the lookup loop finds the scheduled burn whose memo is the transfer's id
BurnLookupFound ==
  /\ roPc = "lookup"
  /\ roSchedules' = roSchedules \cup
       {[transferID |-> TransferID, operation |-> "BURN", status |-> StatusCompleted]}
  /\ roTransfer' = UpdateStatusCompleted(roTransfer)
  /\ roPc' = "idle"
  /\ UNCHANGED <<roDeliveries, federation, watchers>>

(***************************************************************************)
(* The watcher of credit transfers to the bridge account.  The mirror node *)
(* holds the account's credit transactions in consensus order, the k-th    *)
(* with consensus timestamp k; credits[k] tells whether processTransaction *)
(* extracts its amount and its memo passes the sanity check.               *)
(***************************************************************************)
\* a credit transaction of the bridge account reaches consensus
Credit(sane) ==
  /\ Len(credits) < MaxCredits
  /\ credits' = Append(credits, sane)
  /\ UNCHANGED <<accountStatus, ctw, ctwTasks, ctwBatches, ctwRestarts, queue,
                 federation, readOnly, topicWatcher, receiptWaiter>>

\* GetAccountCreditTransactionsAfterTimestamp
GetAccountCreditTransactionsAfterTimestamp(transactions, milestoneTimestamp) ==
  {t \in 1..Len(transactions) : t > milestoneTimestamp}

\* the consensus timestamp of the last transaction of a batch
LastOf(batch) == CHOOSE t \in batch : \A u \in batch : u <= t

\* Watch: creates the Status record if there is none, then starts beginWatching
CtwWatch ==
  /\ ctw.pc = "Watch"
  /\ accountStatus' = IF accountStatus = NoTimestamp THEN StartTimestamp
                      ELSE accountStatus
  /\ ctw' = [ctw EXCEPT !.pc = "beginWatching"]
  /\ UNCHANGED <<credits, ctwTasks, ctwBatches, ctwRestarts, queue, federation,
                 readOnly, topicWatcher, receiptWaiter>>

\* beginWatching up to its loop
CtwBeginWatching(accountExists) ==
  /\ ctw.pc = "beginWatching"
  /\ ctw' = IF accountExists
            THEN [ctw EXCEPT !.pc = "poll", !.milestoneTimestamp = StartTimestamp]
            ELSE [ctw EXCEPT !.pc = "returned"]
  /\ UNCHANGED <<credits, accountStatus, ctwTasks, ctwBatches, ctwRestarts, queue,
                 federation, readOnly, topicWatcher, receiptWaiter>>

\* a restart that does not count its retries
restartUnbounded(w) == [w EXCEPT !.pc = "Watch"]

\* restart: the watcher that goes on, if any
restart(w) ==
  IF w.maxRetries > 0
  THEN [w EXCEPT !.pc = "Watch", !.maxRetries = @ - 1]
  ELSE [w EXCEPT !.pc = "returned"]

\* one turn of the loop of beginWatching up to UpdateLastFetchedTimestamp: the
\* query, and a processTransaction goroutine for every transaction of the batch
CtwPoll(e) ==
  /\ ctw.pc = "poll"
  /\ IF e
     THEN /\ ctw' = restart(ctw)
          /\ ctwRestarts' = IF ctw'.pc = "Watch" THEN ctwRestarts + 1 ELSE ctwRestarts
          /\ UNCHANGED <<ctwTasks, ctwBatches>>
     ELSE LET transactions ==
                GetAccountCreditTransactionsAfterTimestamp(credits, ctw.milestoneTimestamp)
          IN  /\ IF transactions # {}
                 THEN /\ ctwTasks' = ctwTasks \cup
                           {[tx |-> t, batch |-> ctwBatches + 1] : t \in transactions}
                      /\ ctwBatches' = ctwBatches + 1
                      /\ ctw' = [ctw EXCEPT !.pc = "update",
                                            !.milestoneTimestamp = LastOf(transactions)]
                 ELSE /\ ctw' = [ctw EXCEPT !.pc = "update"]
                      /\ UNCHANGED <<ctwTasks, ctwBatches>>
              /\ UNCHANGED ctwRestarts
  /\ UNCHANGED <<credits, accountStatus, queue, federation, readOnly, topicWatcher,
                 receiptWaiter>>

\* UpdateLastFetchedTimestamp with the milestone, then the sleep
CtwUpdateLastFetchedTimestamp(ok) ==
  /\ ctw.pc = "update"
  /\ IF ok
     THEN /\ accountStatus' = ctw.milestoneTimestamp
          /\ ctw' = [ctw EXCEPT !.pc = "poll"]
     ELSE /\ ctw' = [ctw EXCEPT !.pc = "returned"]
          /\ UNCHANGED accountStatus
  /\ UNCHANGED <<credits, ctwTasks, ctwBatches, ctwRestarts, queue, federation,
                 readOnly, topicWatcher, receiptWaiter>>

\* processTransaction, one goroutine for one transaction of a batch
processTransaction(task) ==
  /\ task \in ctwTasks
  /\ ctwTasks' = ctwTasks \ {task}
  /\ queue' = IF credits[task.tx]
              THEN Append(queue, [type |-> "CryptoTransfer", tx |-> task.tx,
                                  batch |-> task.batch])
              ELSE queue
  /\ UNCHANGED <<credits, accountStatus, ctw, ctwBatches, ctwRestarts, federation,
                 readOnly, topicWatcher, receiptWaiter>>

NextTransferWatcher ==
  \/ \E sane \in BOOLEAN : Credit(sane)
  \/ CtwWatch
  \/ \E accountExists \in BOOLEAN : CtwBeginWatching(accountExists)
  \/ \E e \in BOOLEAN : CtwPoll(e)
  \/ \E ok \in BOOLEAN : CtwUpdateLastFetchedTimestamp(ok)
  \/ \E task \in ctwTasks : processTransaction(task)

SpecTransferWatcher == Init /\ [][NextTransferWatcher]_vars

(***************************************************************************)
(* The watcher of the bridge topic.  The mirror node holds the topic's     *)
(* messages in consensus order, the k-th with consensus timestamp k, and   *)
(* the current time is the timestamp of the latest of them.  The queue     *)
(* keeps every event published, also over a restart of the process.        *)
(***************************************************************************)
\* a message of the bridge topic reaches consensus
TopicMessage ==
  /\ consensus < MaxTopicMessages
  /\ consensus' = consensus + 1
  /\ UNCHANGED <<topicStatus, tw, twRestarts, reboots, transferWatcher, federation,
                 readOnly, receiptWaiter>>

\* NewConsensusTopicWatcher, with the startTimestamp of the configuration
NewConsensusTopicWatcher(startTimestamp) ==
  /\ tw.pc = "new"
  /\ tw' = [tw EXCEPT !.pc = "Watch", !.startTimestamp = startTimestamp]
  /\ UNCHANGED <<consensus, topicStatus, twRestarts, reboots, transferWatcher,
                 federation, readOnly, receiptWaiter>>

\* Watch and subscribeToTopic up to getTimestamp's return; on a restarted
\* watcher that finds no record, getTimestamp restarts once more and returns
\* the empty timestamp, on which subscribeToTopic ends the process
getTimestamp ==
  /\ tw.pc = "Watch"
  /\ IF ~tw.started
     THEN IF tw.startTimestamp # NoTimestamp
          THEN /\ tw' = [tw EXCEPT !.pc = "pull",
                                   !.milestoneTimestamp = tw.startTimestamp]
               /\ UNCHANGED <<topicStatus, twRestarts>>
          ELSE IF topicStatus # NoTimestamp
               THEN /\ tw' = [tw EXCEPT !.pc = "pull",
                                        !.milestoneTimestamp = topicStatus]
                    /\ UNCHANGED <<topicStatus, twRestarts>>
               ELSE /\ tw' = [tw EXCEPT !.pc = "pull",
                                        !.milestoneTimestamp = consensus]
                    /\ topicStatus' = consensus
                    /\ UNCHANGED twRestarts
     ELSE IF topicStatus = NoTimestamp
          THEN /\ tw' = [tw EXCEPT !.pc = "fatal", !.started = FALSE]
               /\ twRestarts' = IF restart(tw).pc = "Watch" THEN twRestarts + 1
                                ELSE twRestarts
               /\ UNCHANGED topicStatus
          ELSE /\ tw' = [tw EXCEPT !.pc = "pull",
                                   !.milestoneTimestamp = topicStatus]
               /\ UNCHANGED <<topicStatus, twRestarts>>
  /\ UNCHANGED <<consensus, reboots, transferWatcher, federation, readOnly, receiptWaiter>>

\* GetUnprocessedMessagesAfterTimestamp
GetUnprocessedMessagesAfterTimestamp(published, milestoneTimestamp) ==
  [k \in 1..(IF published > milestoneTimestamp THEN published - milestoneTimestamp
             ELSE 0) |-> milestoneTimestamp + k]

\* the catch-up pull of subscribeToTopic
TwPull(ok) ==
  /\ tw.pc = "pull"
  /\ tw' = IF ok
           THEN [tw EXCEPT !.pc = "process", !.started = TRUE,
                           !.unprocessed =
                             GetUnprocessedMessagesAfterTimestamp(
                               consensus, tw.milestoneTimestamp)]
           ELSE [tw EXCEPT !.pc = "fatal"]
  /\ UNCHANGED <<consensus, topicStatus, twRestarts, reboots, transferWatcher,
                 federation, readOnly, receiptWaiter>>

\* processMessage: Publish, then UpdateLastFetchedTimestamp
processMessage(timestamp) ==
  /\ queue' = Append(queue, [type |-> "HCSMessage", tx |-> timestamp, batch |-> 0])
  /\ topicStatus' = timestamp

\* the loop of subscribeToTopic over the pulled messages, one turn
TwProcessUnprocessed ==
  /\ tw.pc = "process"
  /\ tw.unprocessed # <<>>
  /\ processMessage(Head(tw.unprocessed))
  /\ tw' = [tw EXCEPT !.unprocessed = Tail(@)]
  /\ UNCHANGED <<consensus, twRestarts, reboots, credits, accountStatus, ctw,
                 ctwTasks, ctwBatches, ctwRestarts, federation, readOnly,
                 receiptWaiter>>

\* Subscribe, with no start time: the stream carries the messages that reach
\* consensus from now on
TwSubscribe(ok) ==
  /\ tw.pc = "process"
  /\ tw.unprocessed = <<>>
  /\ tw' = IF ok THEN [tw EXCEPT !.pc = "subscribed", !.next = consensus]
           ELSE [tw EXCEPT !.pc = "returned"]
  /\ UNCHANGED <<consensus, topicStatus, twRestarts, reboots, transferWatcher,
                 federation, readOnly, receiptWaiter>>

\* the subscription's callback for the next message of the stream
TwOnNext ==
  /\ tw.pc = "subscribed"
  /\ tw.next < consensus
  /\ processMessage(tw.next + 1)
  /\ tw' = [tw EXCEPT !.next = @ + 1]
  /\ UNCHANGED <<consensus, twRestarts, reboots, credits, accountStatus, ctw,
                 ctwTasks, ctwBatches, ctwRestarts, federation, readOnly,
                 receiptWaiter>>

\* the subscription's callback for an error of the stream: sleep, then restart
TwOnError ==
  /\ tw.pc = "subscribed"
  /\ tw' = restart(tw)
  /\ twRestarts' = IF tw'.pc = "Watch" THEN twRestarts + 1 ELSE twRestarts
  /\ UNCHANGED <<consensus, topicStatus, reboots, transferWatcher, federation,
                 readOnly, receiptWaiter>>

\* the validator's process stops and is started again with the same
\* configuration and the same database
Reboot ==
  /\ tw.pc # "new"
  /\ reboots < MaxReboots
  /\ reboots' = reboots + 1
  /\ tw' = [tw EXCEPT !.pc = "Watch", !.maxRetries = MaxRetries, !.started = FALSE,
                      !.milestoneTimestamp = NoTimestamp, !.unprocessed = <<>>,
                      !.next = 0]
  /\ twRestarts' = 0
  /\ UNCHANGED <<consensus, topicStatus, transferWatcher, federation, readOnly,
                 receiptWaiter>>

NextTopicWatcher ==
  \/ TopicMessage
  \/ \E startTimestamp \in {NoTimestamp, StartTimestamp} :
       NewConsensusTopicWatcher(startTimestamp)
  \/ getTimestamp
  \/ \E ok \in BOOLEAN : TwPull(ok)
  \/ TwProcessUnprocessed
  \/ \E ok \in BOOLEAN : TwSubscribe(ok)
  \/ TwOnNext
  \/ TwOnError
  \/ Reboot

SpecTopicWatcher == Init /\ [][NextTopicWatcher]_vars

\* the watcher's goroutine and the subscription's callbacks keep running
FairTopicWatcher ==
  /\ WF_vars(getTimestamp)
  /\ WF_vars(\E ok \in BOOLEAN : TwPull(ok))
  /\ WF_vars(TwProcessUnprocessed)
  /\ WF_vars(\E ok \in BOOLEAN : TwSubscribe(ok))
  /\ WF_vars(TwOnNext)

SpecTopicWatcherLive == SpecTopicWatcher /\ FairTopicWatcher

(***************************************************************************)
(* The specification: no call fails in transit.                            *)
(***************************************************************************)
Next ==
  \/ \E n \in Validators, feeOk \in BOOLEAN, accepted \in NoFaults :
       CryptoTransferHandle(n, feeOk, accepted)
  \/ \E n \in Validators : SignatureMinedCallback(n)
  \/ \E n \in Validators : TopicMessageHandle(n)
  \/ \E n \in Validators, ok \in NoFaults : MintSubmitSignatures(n, ok)
  \/ \E n \in Validators, ok \in NoFaults : MintUpdateEthTxSubmitted(n, ok)
  \/ \E n \in Validators, submitted \in NoFaults, updated \in NoFaults :
       MintSubmitEthTxTopicMessage(n, submitted, updated)
  \/ \E n \in Validators, success \in BOOLEAN : hcsTxCallbacks(n, success)
  \/ \E h \in DOMAIN chain, receiptStatus \in {0, 1} : MineTx(h, receiptStatus)
  \/ \E n \in Validators : \E i \in 1..Len(waiters[n]) : ethTxCallbacks(n, i)
  \/ \E tm \in InjectedMessages : Inject(tm)
  \/ \E i \in 1..Len(topic) : Replay(i)
  \/ \E tx \in ForgedTxs : InjectForged(tx)

Spec == Init /\ [][Next]_vars

(***************************************************************************)
(* The specification of the transfer handlers: the credit handlers of the  *)
(* validators with the topic they publish to, and the burn handler of the  *)
(* read-only node.                                                         *)
(***************************************************************************)
NextHandlers ==
  \/ \E n \in Validators, feeOk \in BOOLEAN, accepted \in NoFaults :
       CryptoTransferHandle(n, feeOk, accepted)
  \/ \E n \in Validators : SignatureMinedCallback(n)
  \/ \E n \in Validators : TopicMessageHandle(n)
  \/ \E i \in 1..Len(topic) : Replay(i)
  \/ BurnHandle
  \/ BurnLookupFound

SpecHandlers == Init /\ [][NextHandlers]_vars

(***************************************************************************)
(* The specification of the ingestion of topic signatures: the validators' *)
(* handlers and the topic, with the messages of other parties, up to the   *)
(* election; no mint task runs.                                            *)
(***************************************************************************)
NextIngestion ==
  \/ \E n \in Validators, feeOk \in BOOLEAN, accepted \in NoFaults :
       CryptoTransferHandle(n, feeOk, accepted)
  \/ \E n \in Validators : SignatureMinedCallback(n)
  \/ \E n \in Validators : TopicMessageHandle(n)
  \/ \E tm \in InjectedMessages : Inject(tm)
  \/ \E i \in 1..Len(topic) : Replay(i)

SpecIngestion == Init /\ [][NextIngestion]_vars

(***************************************************************************)
(* Properties of the transfer state machine.                               *)
(***************************************************************************)
\* the transitions of the state table
StatusEdges ==
  {<<StatusInitial, StatusSignatureSubmitted>>,
   <<StatusSignatureSubmitted, StatusSignatureMined>>,
   <<StatusInitial, StatusInsufficientFee>>,
   <<StatusSignatureSubmitted, StatusInsufficientFee>>,
   <<StatusInitial, StatusSignatureFailed>>,
   <<StatusSignatureSubmitted, StatusSignatureFailed>>,
   <<StatusSignatureMined, StatusEthTxSubmitted>>,
   <<StatusEthTxSubmitted, StatusEthTxMined>>,
   <<StatusEthTxSubmitted, StatusEthTxReverted>>}

SubmittedOrLater == {StatusEthTxSubmitted, StatusEthTxMined, StatusEthTxReverted}

\* the hash message at position i of the topic passes the authenticity check
\* of validator n
AuthenticHashMessage(n, i) ==
  /\ topic[i].type = "EthTransaction"
  /\ VerifyEthereumTxAuthenticity(transfers[n], topic[i], chain).ok

\* C1: on every node, in every step of the mint task, the hash-message
\* handler and the receipt callbacks, the stored row stays and its status
\* either stays or moves along one transition of the state table; so a status
\* never goes back, and EthTxMined and EthTxReverted are never replaced.
StatusMovesForward ==
  [][\A n \in Validators :
       HasRow(transfers[n]) =>
         /\ HasRow(transfers'[n])
         /\ \/ transfers'[n].status = transfers[n].status
            \/ <<transfers[n].status, transfers'[n].status>> \in StatusEdges]_vars

\* a validator whose row is EthTxMined or EthTxReverted has just handled a
\* second authentic hash message, whose waiter is still registered
HashMessageMeetsTerminalStatus ==
  \E n \in Validators :
    /\ HasRow(transfers[n])
    /\ transfers[n].status \in {StatusEthTxMined, StatusEthTxReverted}
    /\ cursor[n] > 0
    /\ AuthenticHashMessage(n, cursor[n])
    /\ waitersStarted[n] >= 2
    /\ Len(waiters[n]) >= 1

\* C2: the rows of the validators hold at most one distinct eth_tx_hash for
\* the transfer.
AtMostOneEthTxHash ==
  Cardinality({transfers[n].ethTxHash :
                 n \in {v \in Validators :
                          HasRow(transfers[v]) /\ transfers[v].ethTxHash # NoHash}}) <= 1

\* the hash messages the validators' mint tasks published
ValidatorHashMessages ==
  {i \in 1..Len(topic) :
     topic[i].type = "EthTransaction" /\ topic[i].publisher \in Validators}

\* C3: at most one validator runs the mint task and sends the mint
\* transaction, the validators publish at most one hash message, and once a
\* mint task has published, the one mint transaction and the one hash message
\* are its own; a validator that observed quorum without being elected has
\* sent nothing.
OneSubmitter ==
  /\ Cardinality({n \in Validators : mintTask[n].pc # "idle"}) <= 1
  /\ Cardinality({n \in Validators : MintHash(n) \in DOMAIN chain}) <= 1
  /\ Cardinality(ValidatorHashMessages) <= 1
  /\ \A n \in Validators :
       mintTask[n].pc \in {"published", "done"} =>
         /\ MintHash(n) \in DOMAIN chain
         /\ \E i \in ValidatorHashMessages :
              topic[i].publisher = n /\ topic[i].ethTxHash = MintHash(n)
  /\ \A n \in Validators :
       quorumReached[n] /\ mintTask[n].pc = "idle" => MintHash(n) \notin DOMAIN chain

\* every validator observed quorum, one of them published its hash message and
\* the other one did not submit
QuorumEverywhereOneSubmitted ==
  /\ \A n \in Validators : quorumReached[n]
  /\ \E n \in Validators :
       /\ mintTask[n].pc \in {"published", "done"}
       /\ \A other \in Validators \ {n} :
            mintTask[other].pc = "idle" /\ transfers[other].status = StatusSignatureMined
  /\ Cardinality(ValidatorHashMessages) = 1

\* the member signers of the records of validator n over one digest
MemberSignersOver(n, digest) ==
  {m.signer : m \in {r \in Get(messages[n], TransferID) :
                       r.hash = digest /\ IsMember(r.signer)}}

\* C4: a validator whose row is EthTxSubmitted, EthTxMined or EthTxReverted
\* holds records of at least Threshold distinct member signers over one
\* authorisation digest.
QuorumSoundness ==
  \A n \in Validators :
    (HasRow(transfers[n]) /\ transfers[n].status \in SubmittedOrLater) =>
      \E digest \in {m.hash : m \in messages[n]} :
        Cardinality(MemberSignersOver(n, digest)) >= Threshold

\* C5: a row holds an eth_tx_hash exactly when its status is EthTxSubmitted,
\* EthTxMined or EthTxReverted.
HashSetIffSubmitted ==
  \A n \in Validators :
    HasRow(transfers[n]) =>
      ((transfers[n].ethTxHash # NoHash) <=> (transfers[n].status \in SubmittedOrLater))

\* a validator left an authentic hash message without effect, its row being
\* in no state to take it, while another validator's row holds the hash
HashKeptAndHashRefused ==
  /\ \E n \in Validators :
       /\ HasRow(transfers[n])
       /\ transfers[n].status \notin SubmittedOrLater
       /\ transfers[n].status # StatusSignatureMined
       /\ cursor[n] > 0
       /\ AuthenticHashMessage(n, cursor[n])
  /\ \E n \in Validators :
       /\ HasRow(transfers[n])
       /\ transfers[n].status = StatusEthTxMined
       /\ transfers[n].ethTxHash # NoHash

(***************************************************************************)
(* Properties of the handlers of transfers.                                *)
(***************************************************************************)
\* C6: a call of InitiateNewTransfer that finds no row returns a row of status
\* Initial, a call that finds the row, in whatever state, returns it as it is
\* stored, and a second call returns what the first one returned.
InitiateNewTransferIdempotent ==
  \A n \in Validators :
    LET first == InitiateNewTransfer(transfers[n], TheTransfer)
        second == InitiateNewTransfer(first, TheTransfer)
    IN  /\ ~HasRow(transfers[n]) => (HasRow(first) /\ first.status = StatusInitial)
        /\ HasRow(transfers[n]) => first = transfers[n]
        /\ second = first

\* one validator's row has gone all the way to EthTxMined while another
\* validator has no row yet
RowMinedAndRowMissing ==
  /\ \E n \in Validators :
       HasRow(transfers[n]) /\ transfers[n].status = StatusEthTxMined
  /\ \E n \in Validators : ~HasRow(transfers[n])

\* the topic signatures validator n published itself
OwnSignatures(n, published) ==
  {i \in 1..Len(published) :
     published[i].type = "EthSignature" /\ published[i].publisher = n}

\* C7: a validator publishes a topic signature, and the read-only node enters
\* its lookup, only in a step that finds no row or a row of status Initial; a
\* step that does not handle a topic message leaves the Message table as it
\* is; and no validator publishes a second topic signature.
HandlersContinueOnlyOnInitial ==
  [][/\ \A n \in Validators :
          OwnSignatures(n, topic') # OwnSignatures(n, topic) =>
            (~HasRow(transfers[n]) \/ transfers[n].status = StatusInitial)
     /\ (roPc = "idle" /\ roPc' = "lookup") =>
          (~HasRow(roTransfer) \/ roTransfer.status = StatusInitial)
     /\ \A n \in Validators :
          cursor'[n] = cursor[n] => messages'[n] = messages[n]
     /\ \A n \in Validators : Cardinality(OwnSignatures(n, topic')) <= 1]_vars

\* the transfer was delivered twice to the read-only node, which completed it
\* once, and a validator that published its signature holds a row that is no
\* longer Initial
TransferObservedAgain ==
  /\ roDeliveries = 2
  /\ roPc = "idle"
  /\ roTransfer.status = StatusCompleted
  /\ Cardinality(roSchedules) = 1
  /\ \E n \in Validators :
       /\ HasRow(transfers[n])
       /\ transfers[n].status = StatusSignatureMined
       /\ Cardinality(OwnSignatures(n, topic)) = 1

(***************************************************************************)
(* Properties of the ingestion of topic signatures.                        *)
(***************************************************************************)
\* the authorisation digest of the fields of a topic signature message
DigestOf(tsm) ==
  EncodeBytesFrom(tsm.transferID, tsm.wrappedToken, tsm.receiver, tsm.amount,
                  tsm.txReimbursement)

\* the fields of a topic signature message are those of the row
FieldsMatch(row, tsm) ==
  /\ tsm.receiver = row.receiver
  /\ tsm.amount = row.amount
  /\ tsm.txReimbursement = row.txReimbursement
  /\ tsm.wrappedToken = ParseToken(row.nativeToken)

\* C8: the Message table of every validator holds at most one record per
\* (transfer_id, signer), so the number of records of the transfer is the
\* number of its distinct signers.
OneRecordPerSigner ==
  \A n \in Validators :
    /\ \A m1, m2 \in messages[n] :
         (m1.transferID = m2.transferID /\ m1.signer = m2.signer) => m1 = m2
    /\ Cardinality(Get(messages[n], TransferID)) =
         Cardinality({m.signer : m \in Get(messages[n], TransferID)})

\* a validator has handled two topic signatures of different bytes that pass
\* the sanity check and recover to the same member, and holds one record of
\* that signer
SecondSignatureOfSigner ==
  \E n \in Validators :
    \E i, j \in 1..cursor[n] :
      /\ i < j
      /\ topic[i].type = "EthSignature" /\ topic[j].type = "EthSignature"
      /\ topic[i].signature # topic[j].signature
      /\ FieldsMatch(transfers[n], topic[i]) /\ FieldsMatch(transfers[n], topic[j])
      /\ Ecrecover(DigestOf(topic[i]), topic[i].signature).err = "nil"
      /\ Ecrecover(DigestOf(topic[j]), topic[j].signature).err = "nil"
      /\ Ecrecover(DigestOf(topic[i]), topic[i].signature).address \in Members
      /\ Ecrecover(DigestOf(topic[i]), topic[i].signature).address =
           Ecrecover(DigestOf(topic[j]), topic[j].signature).address
      /\ Cardinality({m \in messages[n] :
                        m.signer = Ecrecover(DigestOf(topic[i]),
                                             topic[i].signature).address}) = 1

\* C9: every record of a Message table has a member as its signer, recovered
\* from its signature over its digest; and ProcessSignature, given a topic
\* signature whose recovery fails or gives a non-member, returns an error and
\* leaves the Message table as it is.
OnlyMembersRecorded ==
  \A n \in Validators :
    /\ \A m \in messages[n] :
         /\ IsMember(m.signer)
         /\ Ecrecover(m.hash, m.signature) = [err |-> "nil", address |-> m.signer]
    /\ \A i \in 1..Len(topic) :
         topic[i].type = "EthSignature" =>
           LET recovered == Ecrecover(DigestOf(topic[i]), topic[i].signature)
               result == ProcessSignature(messages[n], topic[i], i)
           IN  (recovered.err # "nil" \/ recovered.address \notin Members) =>
                 (result.err # "nil" /\ result.table = messages[n])

\* a validator has handled a topic signature of the transfer's fields signed
\* by a key that is no member's, and one whose recovery fails, and holds a
\* record of a member only
NonMemberSignatureHandled ==
  \E n \in Validators :
    /\ \E i \in 1..cursor[n] :
         /\ topic[i].type = "EthSignature"
         /\ FieldsMatch(transfers[n], topic[i])
         /\ \/ /\ Ecrecover(DigestOf(topic[i]), topic[i].signature).err = "nil"
               /\ Ecrecover(DigestOf(topic[i]), topic[i].signature).address \notin Members
            \/ Ecrecover(DigestOf(topic[i]), topic[i].signature).err # "nil"
    /\ messages[n] # {}

\* C10: SanityCheckSignature is true of a stored row and a topic signature
\* message only if the message's receiver, amount, tx_reimbursement and
\* wrapped_token are the row's; a message one of whose fields differs leaves
\* no record, so every record's digest is the digest of the row's fields.
SanityCheckMatchesFields ==
  \A n \in Validators :
    HasRow(transfers[n]) =>
      /\ \A i \in 1..Len(topic) :
           topic[i].type = "EthSignature" =>
             /\ SanityCheckSignature(transfers[n], topic[i]) =>
                  FieldsMatch(transfers[n], topic[i])
             /\ ~FieldsMatch(transfers[n], topic[i]) =>
                  /\ ~SanityCheckSignature(transfers[n], topic[i])
                  /\ \A m \in messages[n] : m.signature # topic[i].signature
      /\ \A m \in messages[n] :
           m.hash = EncodeBytesFrom(TransferID, ParseToken(transfers[n].nativeToken),
                                    transfers[n].receiver, transfers[n].amount,
                                    transfers[n].txReimbursement)

\* a validator has handled a member's topic signature over fields of which
\* one differs from the row's, and holds records of other messages only
MismatchingSignatureHandled ==
  \E n \in Validators :
    /\ \E i \in 1..cursor[n] :
         /\ topic[i].type = "EthSignature"
         /\ ~FieldsMatch(transfers[n], topic[i])
         /\ Ecrecover(DigestOf(topic[i]), topic[i].signature).address \in Members
    /\ messages[n] # {}

(***************************************************************************)
(* The happy path: every validator is handed the credit and the fee        *)
(* passes, no call fails, no other party publishes, and the Ethereum       *)
(* transaction is mined with receipt status 1.  Every handler, task step,  *)
(* callback and waiter is a goroutine or a polling loop that runs again    *)
(* as long as it has work, which is weak fairness of each of them.         *)
(***************************************************************************)
NextLive ==
  \/ \E n \in Validators : CryptoTransferHandle(n, TRUE, TRUE)
  \/ \E n \in Validators : SignatureMinedCallback(n)
  \/ \E n \in Validators : TopicMessageHandle(n)
  \/ \E n \in Validators : MintSubmitSignatures(n, TRUE)
  \/ \E n \in Validators : MintUpdateEthTxSubmitted(n, TRUE)
  \/ \E n \in Validators : MintSubmitEthTxTopicMessage(n, TRUE, TRUE)
  \/ \E n \in Validators : hcsTxCallbacks(n, TRUE)
  \/ \E h \in DOMAIN chain : MineTx(h, 1)
  \/ \E n \in Validators : \E i \in 1..Len(waiters[n]) : ethTxCallbacks(n, i)

FairLive ==
  /\ \A n \in Validators :
       /\ WF_vars(CryptoTransferHandle(n, TRUE, TRUE) /\ ~HasRow(transfers[n]))
       /\ WF_vars(SignatureMinedCallback(n))
       /\ WF_vars(TopicMessageHandle(n))
       /\ WF_vars(MintSubmitSignatures(n, TRUE))
       /\ WF_vars(MintUpdateEthTxSubmitted(n, TRUE))
       /\ WF_vars(MintSubmitEthTxTopicMessage(n, TRUE, TRUE))
       /\ WF_vars(hcsTxCallbacks(n, TRUE))
       /\ WF_vars(\E i \in 1..Len(waiters[n]) : ethTxCallbacks(n, i))
  /\ WF_vars(\E h \in DOMAIN chain : MineTx(h, 1))

SpecLive == Init /\ [][NextLive]_vars /\ FairLive

(***************************************************************************)
(* C11..C20                                                                *)
(***************************************************************************)
\* the message validator n takes from the topic in this step, if it takes one
HandlesNext(n) == cursor'[n] = cursor[n] + 1

\* C11: the topic message handler calls ProcessSignature only after
\* SanityCheckSignature returned true: a step that handles a signature
\* message failing the check leaves the validator's Message table, its
\* quorum flag, its mint task and its transfer row as they were, and a step
\* that adds a record handles a signature message that passes the check.
ProcessSignatureOnlyAfterSanityCheck ==
  [][\A n \in Validators :
       /\ ( /\ HandlesNext(n)
            /\ topic[cursor'[n]].type = "EthSignature"
            /\ ~SanityCheckSignature(transfers[n], topic[cursor'[n]]) )
          => /\ messages'[n] = messages[n]
             /\ quorumReached'[n] = quorumReached[n]
             /\ mintTask'[n] = mintTask[n]
             /\ transfers'[n] = transfers[n]
       /\ messages'[n] # messages[n]
          => /\ HandlesNext(n)
             /\ topic[cursor'[n]].type = "EthSignature"
             /\ SanityCheckSignature(transfers[n], topic[cursor'[n]])
    ]_vars

\* a validator one record short of the quorum has handled a signature
\* message of another member that fails the check, and has no quorum
FailedCheckShortOfQuorum ==
  \E n \in Validators :
    /\ Cardinality(messages[n]) = Threshold - 1
    /\ ~quorumReached[n]
    /\ \E i \in 1..cursor[n] :
         /\ topic[i].type = "EthSignature"
         /\ ~SanityCheckSignature(transfers[n], topic[i])
         /\ LET signer == Ecrecover(DigestOf(topic[i]), topic[i].signature).address
            IN  /\ signer \in Members
                /\ \A m \in messages[n] : m.signer # signer

\* the transaction is not a mint of the row's transfer by distinct members:
\* it is sent to another contract, one of its decoded fields differs from the
\* row's, or its signatures do not recover to pairwise distinct members
NotAuthentic(row, tx) ==
  LET messageHash == EncodeBytesFrom(tx.transferID, tx.wrappedToken, tx.receiver,
                                     tx.amount, tx.txReimbursement)
      signer(k) == Ecrecover(messageHash, tx.signatures[k])
      positions == 1..Len(tx.signatures)
  IN  \/ tx.to # BridgeContractAddress
      \/ tx.amount # row.amount
      \/ tx.receiver # row.receiver
      \/ tx.txReimbursement # row.txReimbursement
      \/ tx.wrappedToken # row.wrappedToken
      \/ \E k \in positions : signer(k).err # "nil" \/ signer(k).address \notin Members
      \/ \E k, l \in positions : k # l /\ signer(k).address = signer(l).address

\* C12: a hash message naming a transaction that is sent to another
\* contract, whose decoded fields differ from the stored row's, or whose
\* signatures do not each recover to pairwise distinct members fails
\* VerifyEthereumTxAuthenticity, and the step that handles it leaves the
\* row (status and eth_tx_hash) and the receipt waiters as they were.
UnauthenticHashMessageRejected ==
  [][\A n \in Validators :
       ( /\ HandlesNext(n)
         /\ HasRow(transfers[n])
         /\ topic[cursor'[n]].type = "EthTransaction"
         /\ topic[cursor'[n]].ethTxHash \in DOMAIN chain
         /\ NotAuthentic(transfers[n], chain[topic[cursor'[n]].ethTxHash]) )
       => /\ ~VerifyEthereumTxAuthenticity(transfers[n], topic[cursor'[n]], chain).ok
          /\ transfers'[n] = transfers[n]
          /\ waiters'[n] = waiters[n]
    ]_vars

\* a validator whose row is SignatureMined has handled a hash message naming
\* such a transaction
UnauthenticHashMessageAtSignatureMined ==
  \E n \in Validators :
    /\ transfers[n].status = StatusSignatureMined
    /\ transfers[n].ethTxHash = NoHash
    /\ cursor[n] > 0
    /\ topic[cursor[n]].type = "EthTransaction"
    /\ topic[cursor[n]].ethTxHash \in DOMAIN chain
    /\ NotAuthentic(transfers[n], chain[topic[cursor[n]].ethTxHash])

\* validator n handles, in this step, a hash message that passes
\* VerifyEthereumTxAuthenticity
IngestsAuthenticHashMessage(n) ==
  /\ HandlesNext(n)
  /\ HasRow(transfers[n])
  /\ AuthenticHashMessage(n, cursor'[n])

\* C13: ingesting an authentic hash message when the row is SignatureMined
\* sets the row to EthTxSubmitted with the message's hash and changes no
\* other column; ingesting it in any other state, the row being
\* EthTxSubmitted already or the message being ingested again among them,
\* leaves the row exactly as it was.
IngestionSetsOnceThenKeeps ==
  [][\A n \in Validators :
       IngestsAuthenticHashMessage(n) =>
         IF transfers[n].status = StatusSignatureMined
         THEN transfers'[n] = [transfers[n] EXCEPT
                                 !.status = StatusEthTxSubmitted,
                                 !.ethTxHash = topic[cursor'[n]].ethTxHash]
         ELSE transfers'[n] = transfers[n]
    ]_vars

\* C13 as stated: every ingestion of an authentic hash message ends with the
\* row EthTxSubmitted with the message's hash, or finds the row EthTxSubmitted
\* or later and leaves it as it was.
IngestionAlwaysSets ==
  [][\A n \in Validators :
       IngestsAuthenticHashMessage(n) =>
         \/ /\ transfers'[n].status = StatusEthTxSubmitted
            /\ transfers'[n].ethTxHash = topic[cursor'[n]].ethTxHash
         \/ /\ transfers[n].status \in SubmittedOrLater
            /\ transfers'[n] = transfers[n]
    ]_vars

\* a validator has ingested the same authentic hash message twice and its
\* row is EthTxSubmitted with the hash of that message
HashMessageIngestedTwice ==
  \E n \in Validators :
    /\ transfers[n].status = StatusEthTxSubmitted
    /\ \E i, j \in 1..cursor[n] :
         /\ i < j
         /\ AuthenticHashMessage(n, i)
         /\ AuthenticHashMessage(n, j)
         /\ topic[i].ethTxHash = topic[j].ethTxHash
         /\ transfers[n].ethTxHash = topic[i].ethTxHash

\* C14: a row becomes InsufficientFee only from no row, Initial or
\* SignatureSubmitted and in a step that publishes nothing; once
\* InsufficientFee, its status stays InsufficientFee and its eth_tx_hash
\* empty in every step; and the topic holds no signature message published
\* by a validator whose row is InsufficientFee.
InsufficientFeeTerminalAndSilent ==
  [][\A n \in Validators :
       /\ ( /\ transfers[n].status # StatusInsufficientFee
            /\ transfers'[n].status = StatusInsufficientFee )
          => /\ transfers[n].status \in
                  {NoRow.status, StatusInitial, StatusSignatureSubmitted}
             /\ topic' = topic
       /\ transfers[n].status = StatusInsufficientFee
          => /\ transfers'[n].status = StatusInsufficientFee
             /\ transfers'[n].ethTxHash = NoHash
             /\ OwnSignatures(n, topic) = {}
             /\ OwnSignatures(n, topic') = {}
    ]_vars

\* a validator whose row is InsufficientFee has stored the other validators'
\* signatures and has handled an authentic hash message
InsufficientFeeAmongSigners ==
  \E n \in Validators :
    /\ transfers[n].status = StatusInsufficientFee
    /\ \A v \in Validators \ {n} : \E m \in messages[n] : m.signer = v
    /\ \E i \in 1..cursor[n] : AuthenticHashMessage(n, i)

\* the hash messages the validators published on the topic
PublishedHashes ==
  {topic[i].ethTxHash : i \in {j \in 1..Len(topic) : topic[j].type = "EthTransaction"}}

\* C15: on the happy path every validator's row is eventually EthTxMined,
\* and stays so, with the eth_tx_hash that was published on the topic.
EveryRowEventuallyMined ==
  <>[](\A n \in Validators :
         /\ transfers[n].status = StatusEthTxMined
         /\ transfers[n].ethTxHash \in PublishedHashes)

\* the happy path reaches EthTxMined everywhere when every submitter's row is
\* SignatureMined by the time its mint task calls UpdateEthTxSubmitted
MinedWhenSignatureMinedFirst ==
  [](\A n \in Validators :
       mintTask[n].pc = "broadcast" => transfers[n].status = StatusSignatureMined)
  => EveryRowEventuallyMined

\* the transactions whose event is in the queue
Published == {queue[i].tx : i \in {j \in 1..Len(queue) : queue[j].type = "CryptoTransfer"}}

\* C16: the persisted last_fetched of the bridge account is never past a
\* transaction that has an event and whose event is not yet in the queue.
CursorBehindPublished ==
  \A t \in 1..Len(credits) :
    (credits[t] /\ StartTimestamp < t /\ t <= accountStatus) => t \in Published

\* C17: of two events of one batch in the queue, the one of the earlier
\* transaction was published first.
BatchPublishedInOrder ==
  \A i, j \in 1..Len(queue) :
    (i < j /\ queue[i].batch = queue[j].batch) => queue[i].tx < queue[j].tx

\* C18: no step decreases a persisted last_fetched: where a record exists,
\* the record after the step holds a timestamp that is not earlier.
LastFetchedNeverDecreases ==
  [][/\ accountStatus # NoTimestamp => accountStatus' >= accountStatus
     /\ topicStatus # NoTimestamp => topicStatus' >= topicStatus]_vars

\* the topic messages whose event is in the queue
TopicPublished ==
  {queue[i].tx : i \in {j \in 1..Len(queue) : queue[j].type = "HCSMessage"}}

\* the timestamp the topic watcher is to resume after: the stored
\* last_fetched, and before there is a record the configured startTimestamp
\* or else the current time
ResumeAfter ==
  IF topicStatus # NoTimestamp THEN topicStatus
  ELSE IF tw.startTimestamp # NoTimestamp THEN tw.startTimestamp
       ELSE consensus

\* C19: every topic message that has reached consensus with a timestamp
\* after last_fetched is eventually published to the queue, unless the
\* watcher has stopped or the process has ended.
NoTopicMessageMissed ==
  \A k \in 1..MaxTopicMessages :
    (tw.pc # "new" /\ k <= consensus /\ k > ResumeAfter)
      ~> (k \in TopicPublished \/ tw.pc \in {"returned", "fatal"})

\* C20: restart starts at most maxRetries Watch goroutines for a stream in
\* one run of the process, each with one retry less than the watcher it
\* replaces; a watcher that has returned stays returned and starts none.
RestartsBounded ==
  [][/\ ctwRestarts' <= MaxRetries
     /\ ctwRestarts' + ctw'.maxRetries = MaxRetries
     /\ ctw.pc = "returned" => (ctw' = ctw /\ ctwRestarts' = ctwRestarts)
     /\ twRestarts' <= MaxRetries
     /\ (tw.pc = "returned" /\ reboots' = reboots)
          => (tw' = tw /\ twRestarts' = twRestarts)]_vars

\* the topic watcher has published messages, has used up its retries and has
\* returned on the next error of its stream
TopicWatcherGaveUp ==
  /\ twRestarts = MaxRetries
  /\ tw.maxRetries = 0
  /\ tw.pc = "returned"
  /\ TopicPublished # {}

\* in the run of a process that starts on an empty database no step decreases
\* a persisted last_fetched
LastFetchedNeverDecreasesInRun ==
  [][reboots' = 0 =>
       /\ accountStatus # NoTimestamp => accountStatus' >= accountStatus
       /\ topicStatus # NoTimestamp => topicStatus' >= topicStatus]_vars


(***************************************************************************)
(* C21..C30                                                                *)
(***************************************************************************)
\* a checkMajority that goes on to the members although Get returned an error
checkMajorityErrorIgnored(stored, got) == Cardinality(stored) >= Threshold

\* checkMajority as the handler's tests exercise it: the stored messages of
\* the transfer are read, then the members of the contract, and nothing
\* else; got is false when messageRepository.Get returns an error
checkMajority(stored, got) == got /\ Cardinality(stored) >= Threshold

\* handleSignatureMessage as the handler's tests exercise it: the handler
\* keeps no field between two messages, and what follows ProcessSignature
\* returning nil depends on the stored messages and the members alone
handleSignatureMessage(n, tm, transactionTimestamp, got) ==
  LET valid == SanityCheckSignature(transfers[n], tm)
      processed == ProcessSignature(messages[n], tm, transactionTimestamp)
      stored == Get(processed.table, tm.transferID)
      majority == /\ valid
                  /\ processed.err = "nil"
                  /\ checkMajority(stored, got)
      elected == majority /\ IsElected(n, stored)
  IN  /\ HasRow(transfers[n])
      /\ messages' = [messages EXCEPT ![n] = IF valid THEN processed.table ELSE @]
      /\ quorumReached' = [quorumReached EXCEPT ![n] = @ \/ majority]
      /\ mintTask' =
           IF elected
           THEN [mintTask EXCEPT ![n] =
                   prepareEthereumMintTask(getSignatures(stored), Earliest(stored).hash)]
           ELSE mintTask
      /\ transfers' =
           IF majority /\ ~elected
           THEN [transfers EXCEPT ![n] = UpdateStatusSignatureMined(@)]
           ELSE transfers
      /\ UNCHANGED <<waiters, waitersStarted>>

\* Handle of the topic message handler, with handleSignatureMessage as above
Handle(n, got) ==
  /\ cursor[n] < Len(topic)
  /\ LET transactionTimestamp == cursor[n] + 1
         tm == topic[transactionTimestamp]
     IN  IF tm.type = "EthSignature"
         THEN handleSignatureMessage(n, tm, transactionTimestamp, got)
         ELSE HandleEthTxMessage(n, tm)
  /\ cursor' = [cursor EXCEPT ![n] = @ + 1]
  /\ UNCHANGED <<topic, chain, injected, readOnly, watchers>>

\* the validators with a topic that delivers a message again, the handler
\* deciding on the stored messages alone
NextMajority ==
  \/ \E n \in Validators, feeOk \in BOOLEAN, accepted \in NoFaults :
       CryptoTransferHandle(n, feeOk, accepted)
  \/ \E n \in Validators : SignatureMinedCallback(n)
  \/ \E n \in Validators, got \in NoFaults : Handle(n, got)
  \/ \E n \in Validators, ok \in NoFaults : MintSubmitSignatures(n, ok)
  \/ \E n \in Validators, ok \in NoFaults : MintUpdateEthTxSubmitted(n, ok)
  \/ \E n \in Validators, submitted \in NoFaults, updated \in NoFaults :
       MintSubmitEthTxTopicMessage(n, submitted, updated)
  \/ \E n \in Validators, success \in BOOLEAN : hcsTxCallbacks(n, success)
  \/ \E h \in DOMAIN chain, receiptStatus \in {0, 1} : MineTx(h, receiptStatus)
  \/ \E n \in Validators : \E i \in 1..Len(waiters[n]) : ethTxCallbacks(n, i)
  \/ \E i \in 1..Len(topic) : Replay(i)

SpecMajority == Init /\ [][NextMajority]_vars

\* C21: on each node the quorum action is taken at most once: a step of the
\* topic message handler schedules the Ethereum mint task of a node only
\* when the signature it ingests brings the number of stored signers of the
\* transfer from below the threshold to the threshold, never on a later
\* signature or on a signature that is delivered again.
QuorumActionOnlyOnFirstMajority ==
  [][\A n \in Validators :
       HandlesNext(n) /\ mintTask'[n] # mintTask[n]
         => /\ Cardinality(Get(messages[n], TransferID)) < Threshold
            /\ Cardinality(Get(messages'[n], TransferID)) >= Threshold]_vars


\* the dynamic types of the payloads a handler is given
Payloads == {"*model.Transfer", "string"}

\* a cast that takes any payload for a transfer
CastAny(payload) == TRUE

\* transferMsg, ok := payload.(*model.Transfer)
Cast(payload) == payload = "*model.Transfer"

\* the burn handler's Handle up to its lookup loop, given a payload and an
\* InitiateNewTransfer that returns an error when initiated is false
BurnHandlePayload(payload, initiated) ==
  LET transactionRecord == InitiateNewTransfer(roTransfer, TheTransfer)
  IN  /\ roPc = "idle"
      /\ roDeliveries < MaxDeliveries
      /\ roDeliveries' = roDeliveries + 1
      /\ IF ~Cast(payload) \/ ~initiated
         THEN UNCHANGED <<roTransfer, roPc>>
         ELSE /\ roTransfer' = transactionRecord
              /\ roPc' = IF SkipsFurtherExecution(transactionRecord)
                         THEN "idle" ELSE "lookup"
      /\ UNCHANGED <<roSchedules, federation, watchers>>

\* the Handle of the handlers of credit transfers, given a payload and an
\* InitiateNewTransfer that returns an error when initiated is false
CryptoTransferHandlePayload(n, payload, initiated, feeOk, accepted) ==
  LET transactionRecord == InitiateNewTransfer(transfers[n], TheTransfer)
  IN  /\ IF ~Cast(payload) \/ ~initiated
         THEN UNCHANGED <<transfers, topic>>
         ELSE IF SkipsFurtherExecution(transactionRecord)
              THEN UNCHANGED <<transfers, topic>>
              ELSE ProcessTransfer(n, transactionRecord, TheTransfer, feeOk, accepted)
      /\ UNCHANGED <<messages, quorumReached, cursor, chain, mintTask, waiters,
                     waitersStarted, injected, readOnly, watchers>>

\* the transfer handlers with payloads of any type and a transfers service
\* that can fail
NextPayloads ==
  \/ \E n \in Validators, payload \in Payloads, initiated \in BOOLEAN,
        feeOk \in BOOLEAN, accepted \in BOOLEAN :
       CryptoTransferHandlePayload(n, payload, initiated, feeOk, accepted)
  \/ \E n \in Validators : SignatureMinedCallback(n)
  \/ \E n \in Validators : TopicMessageHandle(n)
  \/ \E i \in 1..Len(topic) : Replay(i)
  \/ \E payload \in Payloads, initiated \in BOOLEAN :
       BurnHandlePayload(payload, initiated)
  \/ BurnLookupFound

SpecPayloads == Init /\ [][NextPayloads]_vars

\* C22: a transfer handler given a payload it cannot cast makes no service
\* call, and one whose InitiateNewTransfer returns an error stops there: in
\* both cases the step leaves every transfer row, the Schedule table and
\* the handler's position as they were and publishes nothing on the topic.
FailedDeliveryChangesNothing ==
  [][\A payload \in Payloads, initiated \in BOOLEAN :
       payload # "*model.Transfer" \/ ~initiated =>
         /\ BurnHandlePayload(payload, initiated)
              => UNCHANGED <<roTransfer, roPc, roSchedules, transfers, topic>>
         /\ \A n \in Validators, feeOk \in BOOLEAN, accepted \in BOOLEAN :
              CryptoTransferHandlePayload(n, payload, initiated, feeOk, accepted)
                => UNCHANGED <<transfers, topic, roTransfer, roSchedules>>]_vars

\* the read-only node was delivered the transfer and has no row of it: the
\* payload could not be cast, or InitiateNewTransfer returned an error
DeliveryFailedWithoutRow == roDeliveries > 0 /\ ~HasRow(roTransfer)


\* the validators' handlers up to the election, with a message repository
\* whose Get can fail and a topic that delivers a message again
NextMajorityFaults ==
  \/ \E n \in Validators, feeOk \in BOOLEAN, accepted \in NoFaults :
       CryptoTransferHandle(n, feeOk, accepted)
  \/ \E n \in Validators : SignatureMinedCallback(n)
  \/ \E n \in Validators, got \in Faults : Handle(n, got)
  \/ \E i \in 1..Len(topic) : Replay(i)

SpecMajorityFaults == Init /\ [][NextMajorityFaults]_vars

\* C23: when messageRepository.Get fails in the majority check that follows
\* a processed signature, the handler returns: it does not go on to the
\* members, the step leaves the transfer rows, the quorum flags and the
\* mint tasks as they were.
GetFailureStopsMajorityCheck ==
  [][\A n \in Validators :
       Handle(n, FALSE) /\ topic[cursor'[n]].type = "EthSignature"
         => UNCHANGED <<transfers, quorumReached, mintTask>>]_vars

\* a validator stores the signatures of a quorum and has not acted on it:
\* Get failed when the signature that completed the quorum was processed
QuorumStoredGetFailed ==
  \E n \in Validators :
    /\ Cardinality(Get(messages[n], TransferID)) >= Threshold
    /\ ~quorumReached[n]
    /\ cursor[n] >= Threshold


(***************************************************************************)
(* The memo of a credit transfer.  A memo is a sequence of characters; the *)
(* credit transactions of the mirror node carry their memos, and the       *)
(* transfer message that processTransaction publishes carries the fields   *)
(* the sanity check returned.                                              *)
(***************************************************************************)
AddressHexLength == 40

HexDigits ==
  {"0", "1", "2", "3", "4", "5", "6", "7", "8", "9",
   "a", "b", "c", "d", "e", "f", "A", "B", "C", "D", "E", "F"}

DecimalDigits == {"0", "1", "2", "3", "4", "5", "6", "7", "8", "9"}

Dash == <<"-">>

\* the fields of a memo: the parts between its dashes
RECURSIVE Fields(_)
Fields(s) ==
  IF \A i \in 1..Len(s) : s[i] # "-"
  THEN <<s>>
  ELSE LET i == CHOOSE i \in 1..Len(s) :
                  s[i] = "-" /\ \A j \in 1..(i - 1) : s[j] # "-"
       IN  <<SubSeq(s, 1, i - 1)>> \o Fields(SubSeq(s, i + 1, Len(s)))

\* a receiver: 0x and 40 hexadecimal digits
IsReceiver(f) ==
  /\ Len(f) = 2 + AddressHexLength
  /\ f[1] = "0"
  /\ f[2] = "x"
  /\ \A i \in 3..Len(f) : f[i] \in HexDigits

\* a base-10 integer: one decimal digit or more
IsDecimal(f) == Len(f) > 0 /\ \A i \in 1..Len(f) : f[i] \in DecimalDigits

\* the memo format: receiver-tx_reimbursement-gas_price
MatchesFormat(s) ==
  LET f == Fields(s)
  IN  Len(f) = 3 /\ IsReceiver(f[1]) /\ IsDecimal(f[2]) /\ IsDecimal(f[3])

\* a decimal numeral as an integer would be printed: no leading zero
RECURSIVE Canonical(_)
Canonical(d) == IF Len(d) > 1 /\ d[1] = "0" THEN Canonical(Tail(d)) ELSE d

NoMemo == [ok |-> FALSE, EthereumAddress |-> <<>>, TxReimbursementFee |-> <<>>,
           GasPriceGwei |-> <<>>]

\* a parser that reads the two integers as numbers
ParseMemoNumeric(s) ==
  IF MatchesFormat(s)
  THEN [ok |-> TRUE, EthereumAddress |-> Fields(s)[1],
        TxReimbursementFee |-> Canonical(Fields(s)[2]),
        GasPriceGwei |-> Canonical(Fields(s)[3])]
  ELSE NoMemo

\* the memo of a transaction parsed into its three fields, kept as strings
ParseMemo(s) ==
  IF MatchesFormat(s)
  THEN [ok |-> TRUE, EthereumAddress |-> Fields(s)[1],
        TxReimbursementFee |-> Fields(s)[2], GasPriceGwei |-> Fields(s)[3]]
  ELSE NoMemo

\* fmt.Sprintf("%s-%s-%s", receiverAddress, txFee, gasPriceGwei)
EncodeMemo(receiver, txReimbursement, gasPrice) ==
  receiver \o Dash \o txReimbursement \o Dash \o gasPrice

RECURSIVE Repeat(_, _)
Repeat(s, k) == IF k = 0 THEN <<>> ELSE s \o Repeat(s, k - 1)

\* receivers of memos: an address of mixed case, one of 39 digits, one with
\* a character that is no hexadecimal digit
MemoReceivers ==
  { <<"0", "x">> \o Repeat(<<"7", "c", "F", "a">>, 10),
    <<"0", "x">> \o Repeat(<<"7", "c", "F", "a">>, 9) \o <<"e", "2", "d">>,
    <<"0", "x">> \o Repeat(<<"7", "c", "F", "a">>, 9) \o <<"e", "2", "d", "g">> }

\* tx_reimbursement fields of memos: with and without leading zeros, empty,
\* not a number
MemoReimbursements ==
  { <<"1", "7", "4", "7", "2">>, <<"0", "0", "7">>, <<>>, <<"1", "x">> }

\* gas_price fields of memos, one of them with a dash in it
MemoGasPrices == { <<"1", "0", "0">>, <<"0", "1">>, <<"1", "-", "1">> }

Memos ==
  { r \o Dash \o f \o Dash \o g :
      r \in MemoReceivers, f \in MemoReimbursements, g \in MemoGasPrices }

\* a credit transaction with the given memo reaches consensus
MemoCredit(memo) ==
  /\ Len(credits) < MaxCredits
  /\ credits' = Append(credits, memo)
  /\ UNCHANGED <<accountStatus, ctw, ctwTasks, ctwBatches, ctwRestarts, queue,
                 federation, readOnly, topicWatcher, receiptWaiter>>

\* processTransaction of the next credit transaction: the sanity check
\* parses the memo, and the transfer message is published with its fields
MemoProcessTransaction ==
  LET tx == IF accountStatus = NoTimestamp THEN 1 ELSE accountStatus + 1
  IN  /\ tx <= Len(credits)
      /\ LET m == ParseMemo(credits[tx])
         IN  queue' = IF m.ok
                      THEN Append(queue,
                             [type |-> "CryptoTransfer", tx |-> tx,
                              receiver |-> m.EthereumAddress,
                              txReimbursement |-> m.TxReimbursementFee,
                              gasPrice |-> m.GasPriceGwei])
                      ELSE queue
      /\ accountStatus' = tx
      /\ UNCHANGED <<credits, ctw, ctwTasks, ctwBatches, ctwRestarts, federation,
                     readOnly, topicWatcher, receiptWaiter>>

NextMemo ==
  \/ \E memo \in Memos : MemoCredit(memo)
  \/ MemoProcessTransaction

SpecMemo == Init /\ [][NextMemo]_vars

\* C24: memo round trip: every memo that the format accepts is parsed into
\* (receiver, tx_reimbursement, gas_price) whose re-encoding as
\* receiver-tx_reimbursement-gas_price is the memo, character by character;
\* every transfer message published carries the fields of such a memo.
MemoRoundTrip ==
  /\ \A tx \in 1..Len(credits) :
       MatchesFormat(credits[tx]) =>
         LET m == ParseMemo(credits[tx])
         IN  /\ m.ok
             /\ EncodeMemo(m.EthereumAddress, m.TxReimbursementFee, m.GasPriceGwei)
                  = credits[tx]
  /\ \A i \in 1..Len(queue) :
       EncodeMemo(queue[i].receiver, queue[i].txReimbursement, queue[i].gasPrice)
         = credits[queue[i].tx]

\* a transfer message was published for a memo whose tx_reimbursement has
\* leading zeros, and a memo that the format rejects was dropped
MemoWithLeadingZerosPublished ==
  /\ \E i \in 1..Len(queue) :
       /\ Len(queue[i].txReimbursement) > 1
       /\ queue[i].txReimbursement[1] = "0"
  /\ \E tx \in 1..Len(credits) :
       /\ accountStatus >= tx
       /\ ~MatchesFormat(credits[tx])


\* C25: at most one receipt waiter per transfer on each node: over the mint
\* task and every ingestion of a hash message, also the submitter's
\* ingestion of its own hash message and a hash message delivered again,
\* WaitForTransaction is started at most once.
AtMostOneReceiptWaiter == \A n \in Validators : waitersStarted[n] <= 1


\* the happy path with a database whose UpdateEthTxSubmitted can fail in the
\* mint task; a write that is made again and again eventually succeeds
NextLiveFaults ==
  \/ \E n \in Validators : CryptoTransferHandle(n, TRUE, TRUE)
  \/ \E n \in Validators : SignatureMinedCallback(n)
  \/ \E n \in Validators : TopicMessageHandle(n)
  \/ \E n \in Validators : MintSubmitSignatures(n, TRUE)
  \/ \E n \in Validators, ok \in Faults : MintUpdateEthTxSubmitted(n, ok)
  \/ \E n \in Validators : MintSubmitEthTxTopicMessage(n, TRUE, TRUE)
  \/ \E n \in Validators : hcsTxCallbacks(n, TRUE)
  \/ \E h \in DOMAIN chain : MineTx(h, 1)
  \/ \E n \in Validators : \E i \in 1..Len(waiters[n]) : ethTxCallbacks(n, i)

FairLiveFaults ==
  /\ FairLive
  /\ \A n \in Validators : SF_vars(MintUpdateEthTxSubmitted(n, TRUE))

SpecLiveFaults == Init /\ [][NextLiveFaults]_vars /\ FairLiveFaults

\* C26: a mint transaction that was broadcast is never left unannounced:
\* whether or not the submitter's write of EthTxSubmitted fails after the
\* broadcast, the submitter eventually registers its receipt waiter and
\* publishes the hash message of the transaction.
BroadcastEventuallyAnnounced ==
  \A n \in Validators :
    (mintTask[n].pc = "broadcast")
      ~> ( /\ MintHash(n) \in PublishedHashes
           /\ waitersStarted[n] > 0 )


\* validator n publishes a hash message in this step
PublishesHashMessage(n) ==
  /\ Len(topic') = Len(topic) + 1
  /\ topic'[Len(topic')].type = "EthTransaction"
  /\ topic'[Len(topic')].publisher = n

\* C27: the submitter broadcasts, then updates its row to EthTxSubmitted
\* with the broadcast hash, then submits the hash message: a step that
\* publishes the hash message of a validator finds the transaction
\* broadcast and the validator's row EthTxSubmitted, or past it, with that
\* same hash.
HashMessageAfterRowSubmitted ==
  [][\A n \in Validators :
       PublishesHashMessage(n) =>
         /\ topic'[Len(topic')].ethTxHash \in DOMAIN chain
         /\ HasRow(transfers[n])
         /\ transfers[n].status \in SubmittedOrLater
         /\ transfers[n].ethTxHash = topic'[Len(topic')].ethTxHash]_vars


\* C28: when the receipt callback of a waiter runs on a row that is
\* EthTxSubmitted, a receipt of status 1 moves the row to EthTxMined and a
\* receipt of status 0 to EthTxReverted; a row that is EthTxMined or
\* EthTxReverted never changes its status again, so the two outcomes are
\* never both applied to a transfer on one node.
ReceiptDecidesOutcomeOnce ==
  [][\A n \in Validators :
       /\ ( /\ HasRow(transfers[n])
            /\ transfers[n].status = StatusEthTxSubmitted
            /\ Len(waiters'[n]) < Len(waiters[n]) )
          => \E i \in 1..Len(waiters[n]) :
               /\ waiters'[n] = RemoveAt(waiters[n], i)
               /\ ~chain[waiters[n][i]].receipt.isPending
               /\ transfers'[n].status =
                    IF chain[waiters[n][i]].receipt.status = 1
                    THEN StatusEthTxMined
                    ELSE StatusEthTxReverted
       /\ ( /\ HasRow(transfers[n])
            /\ transfers[n].status \in {StatusEthTxMined, StatusEthTxReverted} )
          => transfers'[n].status = transfers[n].status]_vars

\* a validator's row is EthTxReverted for a transaction whose receipt has
\* status 0
RevertedByReceiptStatusZero ==
  \E n \in Validators :
    /\ HasRow(transfers[n])
    /\ transfers[n].status = StatusEthTxReverted
    /\ transfers[n].ethTxHash \in DOMAIN chain
    /\ chain[transfers[n].ethTxHash].receipt.status = 0
    /\ ~chain[transfers[n].ethTxHash].receipt.isPending


(***************************************************************************)
(* The confirmation waiter.  WaitForTransaction starts a goroutine that    *)
(* runs waitForTransactionReceipt and then one of the callbacks; every     *)
(* call to the Ethereum node is a step.  The goroutines of one validator   *)
(* are taken one after the other from its registered waiters.              *)
(***************************************************************************)
\* what a call to the Ethereum node returns: an answer, ethereum.NotFound,
\* or another error
RpcResults == {"ok", "notFound", "error"}

\* ec.Client.TransactionByHash
TransactionByHash(hash, result) ==
  [isPending |-> IF result = "ok" THEN chain[hash].receipt.isPending ELSE FALSE,
   err |-> IF result = "ok" THEN "nil" ELSE result]

\* a loop that leaves for the receipt whatever isPending is
afterTransactionByHashNoWait(response) ==
  IF response.err # "nil" THEN "failed" ELSE "TransactionReceipt"

\* the loop of waitForTransactionReceipt after TransactionByHash: return the
\* error, break when the transaction is not pending, else sleep and poll again
afterTransactionByHash(response) ==
  IF response.err # "nil"
  THEN "failed"
  ELSE IF ~response.isPending THEN "TransactionReceipt" ELSE "TransactionByHash"

\* the goroutine of the next registered waiter of validator n starts
RwBegin(n) ==
  /\ rw[n].pc = "idle"
  /\ waiters[n] # <<>>
  /\ rw' = [rw EXCEPT ![n] = [pc |-> "TransactionByHash", hash |-> Head(waiters[n]),
                              receipt |-> PendingReceipt]]
  /\ waiters' = [waiters EXCEPT ![n] = Tail(@)]
  /\ UNCHANGED <<transfers, messages, quorumReached, topic, cursor, chain, mintTask,
                 waitersStarted, injected, readOnly, transferWatcher, topicWatcher>>

\* the first TransactionByHash of a round of the loop
RwTransactionByHash(n, result) ==
  /\ rw[n].pc = "TransactionByHash"
  /\ LET response == TransactionByHash(rw[n].hash, result)
     IN  rw' = [rw EXCEPT ![n].pc =
                  IF response.err = "notFound"
                  THEN "retry"
                  ELSE afterTransactionByHash(response)]
  /\ UNCHANGED <<federation, readOnly, transferWatcher, topicWatcher>>

\* the second TransactionByHash, five seconds after ethereum.NotFound
RwRetry(n, result) ==
  /\ rw[n].pc = "retry"
  /\ rw' = [rw EXCEPT ![n].pc =
              afterTransactionByHash(TransactionByHash(rw[n].hash, result))]
  /\ UNCHANGED <<federation, readOnly, transferWatcher, topicWatcher>>

\* ec.Client.TransactionReceipt, whose result waitForTransactionReceipt returns
RwTransactionReceipt(n, ok) ==
  /\ rw[n].pc = "TransactionReceipt"
  /\ rw' = [rw EXCEPT ![n] =
              IF ok
              THEN [@ EXCEPT !.pc = "returned", !.receipt = chain[rw[n].hash].receipt]
              ELSE [@ EXCEPT !.pc = "failed"]]
  /\ UNCHANGED <<federation, readOnly, transferWatcher, topicWatcher>>

\* the wait returned a receipt: onSuccess for status 1, onRevert otherwise
RwCallback(n) ==
  /\ rw[n].pc = "returned"
  /\ transfers' =
       [transfers EXCEPT ![n] =
          IF WaitForTransactionSuccess(rw[n].receipt)
          THEN UpdateEthTxMined(@)
          ELSE UpdateEthTxReverted(@)]
  /\ rw' = [rw EXCEPT ![n] = NoWaiter]
  /\ UNCHANGED <<messages, quorumReached, topic, cursor, chain, mintTask, waiters,
                 waitersStarted, injected, readOnly, transferWatcher, topicWatcher>>

\* the wait returned an error: onError, which the service passes as
\* func(err error) {}, and the goroutine ends
RwOnError(n) ==
  /\ rw[n].pc = "failed"
  /\ rw' = [rw EXCEPT ![n] = NoWaiter]
  /\ UNCHANGED <<federation, readOnly, transferWatcher, topicWatcher>>

\* the happy path with the confirmation waiter step by step; no call fails
NextWaiter ==
  \/ \E n \in Validators : CryptoTransferHandle(n, TRUE, TRUE)
  \/ \E n \in Validators : SignatureMinedCallback(n)
  \/ \E n \in Validators : TopicMessageHandle(n)
  \/ \E n \in Validators : MintSubmitSignatures(n, TRUE)
  \/ \E n \in Validators : MintUpdateEthTxSubmitted(n, TRUE)
  \/ \E n \in Validators : MintSubmitEthTxTopicMessage(n, TRUE, TRUE)
  \/ \E n \in Validators : hcsTxCallbacks(n, TRUE)
  \/ \E h \in DOMAIN chain, receiptStatus \in {0, 1} : MineTx(h, receiptStatus)
  \/ \E n \in Validators : RwBegin(n)
  \/ \E n \in Validators : RwTransactionByHash(n, "ok")
  \/ \E n \in Validators : RwTransactionReceipt(n, TRUE)
  \/ \E n \in Validators : RwCallback(n)

\* every goroutine keeps being scheduled
FairWaiter ==
  \A n \in Validators :
    /\ WF_vars(CryptoTransferHandle(n, TRUE, TRUE) /\ ~HasRow(transfers[n]))
    /\ WF_vars(SignatureMinedCallback(n))
    /\ WF_vars(TopicMessageHandle(n))
    /\ WF_vars(MintSubmitSignatures(n, TRUE))
    /\ WF_vars(MintUpdateEthTxSubmitted(n, TRUE))
    /\ WF_vars(MintSubmitEthTxTopicMessage(n, TRUE, TRUE))
    /\ WF_vars(hcsTxCallbacks(n, TRUE))
    /\ WF_vars(RwBegin(n))
    /\ WF_vars(RwTransactionByHash(n, "ok"))
    /\ WF_vars(RwTransactionReceipt(n, TRUE))
    /\ WF_vars(RwCallback(n))

SpecWaiter == Init /\ [][NextWaiter]_vars /\ FairWaiter

\* the waiter is at the receipt only for a transaction that is not pending,
\* and the receipt it returns is the receipt of the transaction
ReceiptOnlyWhenNotPending ==
  \A n \in Validators :
    /\ rw[n].pc \in {"TransactionReceipt", "returned"}
         => ~chain[rw[n].hash].receipt.isPending
    /\ rw[n].pc = "returned" => rw[n].receipt = chain[rw[n].hash].receipt

\* C29: the confirmation waiter never fetches or returns a receipt while
\* TransactionByHash reports the transaction as pending: it polls until the
\* transaction is not pending and then fetches the receipt; and when the
\* transaction is not pending and no call to the node fails, the wait
\* terminates with the receipt of the transaction.
WaitReturnsReceiptOfMinedTx ==
  /\ []ReceiptOnlyWhenNotPending
  /\ \A n \in Validators :
       (rw[n].pc = "TransactionByHash" /\ ~chain[rw[n].hash].receipt.isPending)
         ~> (rw[n].pc = "returned" /\ rw[n].receipt = chain[rw[n].hash].receipt)

\* a waiter has polled a transaction that was pending and has returned its
\* receipt of status 0 after it was mined
WaitReturnedRevertedReceipt ==
  \E n \in Validators :
    /\ rw[n].pc = "returned"
    /\ rw[n].receipt = [isPending |-> FALSE, status |-> 0]


\* the happy path with the confirmation waiter step by step and an Ethereum
\* node whose calls can fail
NextWaiterFaults ==
  \/ \E n \in Validators : CryptoTransferHandle(n, TRUE, TRUE)
  \/ \E n \in Validators : SignatureMinedCallback(n)
  \/ \E n \in Validators : TopicMessageHandle(n)
  \/ \E n \in Validators : MintSubmitSignatures(n, TRUE)
  \/ \E n \in Validators : MintUpdateEthTxSubmitted(n, TRUE)
  \/ \E n \in Validators : MintSubmitEthTxTopicMessage(n, TRUE, TRUE)
  \/ \E n \in Validators : hcsTxCallbacks(n, TRUE)
  \/ \E h \in DOMAIN chain, receiptStatus \in {0, 1} : MineTx(h, receiptStatus)
  \/ \E n \in Validators : RwBegin(n)
  \/ \E n \in Validators, result \in RpcResults : RwTransactionByHash(n, result)
  \/ \E n \in Validators, result \in RpcResults : RwRetry(n, result)
  \/ \E n \in Validators, ok \in Faults : RwTransactionReceipt(n, ok)
  \/ \E n \in Validators : RwCallback(n)
  \/ \E n \in Validators : RwOnError(n)

\* every goroutine keeps being scheduled, and a call to the node that is
\* made again and again eventually succeeds
FairWaiterFaults ==
  /\ FairWaiter
  /\ \A n \in Validators :
       /\ WF_vars(\E result \in RpcResults : RwRetry(n, result))
       /\ WF_vars(RwOnError(n))
       /\ SF_vars(RwTransactionByHash(n, "ok"))
       /\ SF_vars(RwRetry(n, "ok"))
       /\ SF_vars(RwTransactionReceipt(n, TRUE))
  /\ WF_vars(\E h \in DOMAIN chain, receiptStatus \in {0, 1} : MineTx(h, receiptStatus))

SpecWaiterFaults == Init /\ [][NextWaiterFaults]_vars /\ FairWaiterFaults

\* C30: an error of the Ethereum node during the confirmation wait does not
\* end the wait for good: a row that is EthTxSubmitted and whose
\* transaction is mined or reverted eventually is EthTxMined or
\* EthTxReverted.
SubmittedEventuallyTerminal ==
  \A n \in Validators :
    ( /\ HasRow(transfers[n])
      /\ transfers[n].status = StatusEthTxSubmitted
      /\ transfers[n].ethTxHash \in DOMAIN chain
      /\ ~chain[transfers[n].ethTxHash].receipt.isPending )
      ~> ( transfers[n].status \in {StatusEthTxMined, StatusEthTxReverted} )


(***************************************************************************)
(* C31..C39                                                                *)
(***************************************************************************)
\* validator n handles in this step a signature message that its Message
\* table already holds: same transfer, same signature, same digest
ReingestsRecordedSignature(n) ==
  /\ HandlesNext(n)
  /\ topic[cursor'[n]].type = "EthSignature"
  /\ Exist(messages[n], topic[cursor'[n]].transferID, topic[cursor'[n]].signature,
           DigestOf(topic[cursor'[n]]))

\* the re-ingestion of a recorded signature message reports no error and
\* leaves the Message table and the transfer row as they were
ReingestionLeavesTablesUnchanged ==
  [][\A n \in Validators :
       ReingestsRecordedSignature(n)
         => /\ ProcessSignature(messages[n], topic[cursor'[n]], cursor'[n]).err = "nil"
            /\ messages'[n] = messages[n]
            /\ transfers'[n] = transfers[n]]_vars

\* C31: re-ingesting a topic signature message that is already recorded
\* leaves the Message table unchanged, reports no error, and leaves the
\* node in the state it would be in without the re-delivery: its transfer
\* row and its mint task are as they were.
ReingestionChangesNothing ==
  [][\A n \in Validators :
       ReingestsRecordedSignature(n)
         => /\ ProcessSignature(messages[n], topic[cursor'[n]], cursor'[n]).err = "nil"
            /\ messages'[n] = messages[n]
            /\ transfers'[n] = transfers[n]
            /\ mintTask'[n] = mintTask[n]]_vars


\* an awaitTransfer that gives up with an error when the row is not there
awaitTransferNoWait(row, retrieved) ==
  [returns |-> TRUE, err |-> IF retrieved /\ HasRow(row) THEN "nil" ELSE "error"]

\* awaitTransfer: an error of GetByTransactionId is returned; otherwise the
\* loop goes on, five seconds apart, until the row is found
awaitTransfer(row, retrieved) ==
  IF ~retrieved
  THEN [returns |-> TRUE, err |-> "error"]
  ELSE [returns |-> HasRow(row), err |-> "nil"]

\* Handle of the topic message handler with the wait for the transfer row
\* in SanityCheckSignature: retrieved is false when GetByTransactionId
\* returns an error
HandleAwaiting(n, retrieved, got) ==
  /\ cursor[n] < Len(topic)
  /\ LET transactionTimestamp == cursor[n] + 1
         tm == topic[transactionTimestamp]
         awaited == awaitTransfer(transfers[n], retrieved)
     IN  IF tm.type = "EthSignature"
         THEN /\ awaited.returns
              /\ IF awaited.err # "nil"
                 THEN UNCHANGED <<transfers, messages, quorumReached, mintTask,
                                  waiters, waitersStarted>>
                 ELSE handleSignatureMessage(n, tm, transactionTimestamp, got)
         ELSE HandleEthTxMessage(n, tm)
  /\ cursor' = [cursor EXCEPT ![n] = @ + 1]
  /\ UNCHANGED <<topic, chain, injected, readOnly, watchers>>

\* the validators' handlers up to the election, with a transfer repository
\* whose read can fail
NextAwait ==
  \/ \E n \in Validators : CryptoTransferHandle(n, TRUE, TRUE)
  \/ \E n \in Validators : SignatureMinedCallback(n)
  \/ \E n \in Validators, retrieved \in Faults, got \in NoFaults :
       HandleAwaiting(n, retrieved, got)

\* the credit reaches every validator's handler, and every handler keeps
\* being scheduled
FairAwait ==
  \A n \in Validators :
    /\ WF_vars(CryptoTransferHandle(n, TRUE, TRUE) /\ ~HasRow(transfers[n]))
    /\ WF_vars(HandleAwaiting(n, TRUE, TRUE))

SpecAwait == Init /\ [][NextAwait]_vars /\ FairAwait

\* the most messages the topic holds
MaxTopicLength == Cardinality(Validators) + MaxInjected

\* C32: a signature message that arrives before its transfer row is not
\* dropped: while GetByTransactionId returns no error, the handler gets past
\* SanityCheckSignature only with the row present; an error of the
\* repository ends the wait and nothing is recorded; and the message next
\* on the topic is eventually handled once the row is persisted.
SignatureMessageAwaitsTransfer ==
  /\ [][\A n \in Validators :
          HandlesNext(n) /\ topic[cursor'[n]].type = "EthSignature"
            => /\ (\E got \in NoFaults : HandleAwaiting(n, TRUE, got))
                    => HasRow(transfers[n])
               /\ ~HasRow(transfers[n])
                    => UNCHANGED <<transfers, messages, quorumReached, mintTask>>]_vars
  /\ \A n \in Validators : \A k \in 0..MaxTopicLength :
       (cursor[n] = k /\ Len(topic) > k) ~> (cursor[n] > k)

\* a validator has a signature message next on the topic and no transfer
\* row yet, and another validator has recorded that message
SignatureMessageBeforeTransfer ==
  \E n \in Validators :
    /\ ~HasRow(transfers[n])
    /\ cursor[n] < Len(topic)
    /\ topic[cursor[n] + 1].type = "EthSignature"
    /\ \E v \in Validators \ {n} : messages[v] # {}


\* C33: a watcher that was restarted resumes from the persisted last
\* fetched timestamp: the transfer watcher's loop and the topic watcher's
\* pull begin, after a restart, at the timestamp of the Status record; and
\* no restart changes a Transfer or Message row.
RestartResumesFromPersistedCursor ==
  [][/\ (ctwRestarts > 0 /\ accountStatus # NoTimestamp /\ CtwBeginWatching(TRUE))
          => ctw'.milestoneTimestamp = accountStatus
     /\ ((twRestarts > 0 \/ reboots > 0) /\ topicStatus # NoTimestamp
           /\ getTimestamp /\ tw'.pc = "pull")
          => tw'.milestoneTimestamp = topicStatus
     /\ (ctwRestarts' # ctwRestarts \/ twRestarts' # twRestarts \/ reboots' # reboots)
          => UNCHANGED <<transfers, messages>>]_vars


(***************************************************************************)
(* The watcher of the bridge topic with the content of the messages.  The  *)
(* k-th message of the topic has consensus timestamp k seconds and nanos   *)
(* nanoseconds; credits holds the messages of the mirror node, each with   *)
(* whether its base64 rendering decodes and whether its bytes unmarshal.   *)
(* A timestamp string is the sequence of its characters; the digit of      *)
(* nanos stands for the nine digits of the fraction.                       *)
(***************************************************************************)
DigitChars == <<"0", "1", "2", "3", "4", "5", "6", "7", "8", "9">>

\* strconv.FormatInt(n, 10)
FormatInt(n) == <<DigitChars[n + 1]>>

\* strconv.ParseUint(s, 10, 64)
ParseUint(s) == [ok |-> IsDecimal(s), value |-> IF IsDecimal(s) THEN Canonical(s) ELSE <<>>]

\* the consensus timestamp as the mirror node's REST interface prints it:
\* seconds.nanoseconds, or the integer of nanoseconds
RestFormats == {"dotted", "nanoseconds"}

RestString(seconds, nanos, format) ==
  IF format = "dotted"
  THEN FormatInt(seconds) \o <<".">> \o FormatInt(nanos)
  ELSE FormatInt(seconds) \o FormatInt(nanos)

TopicMessageContents == [base64 : BOOLEAN, proto : BOOLEAN, nanos : {0, 1}]

\* a message of the bridge topic reaches consensus
ContentTopicMessage(m) ==
  /\ Len(credits) < MaxTopicMessages
  /\ credits' = Append(credits, m)
  /\ UNCHANGED <<accountStatus, ctw, ctwTasks, ctwBatches, ctwRestarts, queue,
                 federation, readOnly, topicWatcher, receiptWaiter>>

\* the catch-up pull of subscribeToTopic from the configured startTimestamp
ContentPull(format) ==
  /\ tw.pc = "new"
  /\ tw' = [tw EXCEPT !.pc = "process", !.started = TRUE,
                      !.unprocessed =
                        [k \in 1..Len(credits) |->
                           [base64 |-> credits[k].base64, proto |-> credits[k].proto,
                            ConsensusTimestamp |->
                              RestString(k, credits[k].nanos, format),
                            tx |-> k]]]
  /\ UNCHANGED <<consensus, topicStatus, twRestarts, reboots, transferWatcher,
                 federation, readOnly, receiptWaiter>>

\* a processMessage that publishes bytes it could not unmarshal
processTopicMessageUnchecked(proto, timestamp, tx) ==
  IF ParseUint(timestamp).ok
  THEN /\ queue' = Append(queue, [type |-> "HCSMessage", tx |-> tx,
                                  TransactionTimestamp |-> ParseUint(timestamp).value])
       /\ topicStatus' = timestamp
  ELSE UNCHANGED <<queue, topicStatus>>

\* processMessage: Unmarshal, ParseUint of the timestamp, Publish,
\* UpdateLastFetchedTimestamp
processTopicMessage(proto, timestamp, tx) ==
  IF proto /\ ParseUint(timestamp).ok
  THEN /\ queue' = Append(queue, [type |-> "HCSMessage", tx |-> tx,
                                  TransactionTimestamp |-> ParseUint(timestamp).value])
       /\ topicStatus' = timestamp
  ELSE UNCHANGED <<queue, topicStatus>>

\* the loop of subscribeToTopic over the pulled messages, one turn
ContentProcessUnprocessed ==
  /\ tw.pc = "process"
  /\ tw.unprocessed # <<>>
  /\ LET u == Head(tw.unprocessed)
     IN  IF ~u.base64
         THEN UNCHANGED <<queue, topicStatus>>
         ELSE processTopicMessage(u.proto, u.ConsensusTimestamp, u.tx)
  /\ tw' = [tw EXCEPT !.unprocessed = Tail(@)]
  /\ UNCHANGED <<consensus, twRestarts, reboots, credits, accountStatus, ctw,
                 ctwTasks, ctwBatches, ctwRestarts, federation, readOnly,
                 receiptWaiter>>

\* Subscribe, with no start time
ContentSubscribe ==
  /\ tw.pc = "process"
  /\ tw.unprocessed = <<>>
  /\ tw' = [tw EXCEPT !.pc = "subscribed", !.next = Len(credits)]
  /\ UNCHANGED <<consensus, topicStatus, twRestarts, reboots, transferWatcher,
                 federation, readOnly, receiptWaiter>>

\* the subscription's callback for the next message of the stream
ContentOnNext ==
  /\ tw.pc = "subscribed"
  /\ tw.next < Len(credits)
  /\ processTopicMessage(credits[tw.next + 1].proto, FormatInt(tw.next + 1), tw.next + 1)
  /\ tw' = [tw EXCEPT !.next = @ + 1]
  /\ UNCHANGED <<consensus, twRestarts, reboots, credits, accountStatus, ctw,
                 ctwTasks, ctwBatches, ctwRestarts, federation, readOnly,
                 receiptWaiter>>

\* the validator's process stops and is started again with the same
\* configuration
ContentReboot ==
  /\ tw.pc # "new"
  /\ reboots < MaxReboots
  /\ reboots' = reboots + 1
  /\ tw' = [tw EXCEPT !.pc = "new", !.started = FALSE, !.unprocessed = <<>>,
                      !.next = 0]
  /\ UNCHANGED <<consensus, topicStatus, twRestarts, transferWatcher, federation,
                 readOnly, receiptWaiter>>

NextTopicContent ==
  \/ \E m \in TopicMessageContents : ContentTopicMessage(m)
  \/ \E format \in RestFormats : ContentPull(format)
  \/ ContentProcessUnprocessed
  \/ ContentSubscribe
  \/ ContentOnNext
  \/ ContentReboot

SpecTopicContent == Init /\ [][NextTopicContent]_vars

\* C34: a topic message that cannot be base64-decoded or unmarshalled, or
\* whose timestamp cannot be parsed, is dropped: the step that handles it
\* publishes no event and does not write the last fetched timestamp, and
\* the watcher stays in its loop, or subscribed, with the next message.
MalformedTopicMessageDropped ==
  [][/\ (tw.pc = "process" /\ tw.unprocessed # <<>> /\ tw'.unprocessed # tw.unprocessed
         /\ tw'.pc = "process"
         /\ (\/ ~Head(tw.unprocessed).base64
             \/ ~Head(tw.unprocessed).proto
             \/ ~IsDecimal(Head(tw.unprocessed).ConsensusTimestamp)))
          => /\ UNCHANGED <<queue, topicStatus>>
             /\ tw'.unprocessed = Tail(tw.unprocessed)
     /\ (tw.pc = "subscribed" /\ tw'.pc = "subscribed" /\ tw'.next # tw.next
         /\ ~credits[tw.next + 1].proto)
          => /\ UNCHANGED <<queue, topicStatus>>
             /\ tw'.next = tw.next + 1]_vars

\* the event of a message was published after a message before it was
\* dropped as malformed, by the pull or by the subscription
PublishedAfterMalformed ==
  \E i \in 1..Len(queue) :
    /\ queue[i].tx > 1
    /\ \E k \in 1..(queue[i].tx - 1) :
         /\ ~credits[k].proto \/ ~credits[k].base64
         /\ \A j \in 1..Len(queue) : queue[j].tx # k


\* C37: the transaction timestamp attached to a topic message is the same
\* whether the catch-up pull or the subscription delivers it: two events
\* published for one message of the topic carry one TransactionTimestamp.
PullAndStreamAttachSameTimestamp ==
  \A i, j \in 1..Len(queue) :
    queue[i].tx = queue[j].tx
      => queue[i].TransactionTimestamp = queue[j].TransactionTimestamp


(***************************************************************************)
(* The watcher of the bridge contract's Burn events.  credits holds the    *)
(* Burn logs the contract has emitted, in the order of emission; tw.next   *)
(* is the position of the subscription in them and tw.received the number  *)
(* of logs the watcher has taken from the events channel.                  *)
(***************************************************************************)
BurnLogs == [account : {"a1", "a2"}, amount : {1, 2}, receiver : {"r1", "r2"}]

\* the bridge contract emits a Burn event
BurnEventLog(eventLog) ==
  /\ Len(credits) < MaxCredits
  /\ credits' = Append(credits, eventLog)
  /\ UNCHANGED <<accountStatus, ctw, ctwTasks, ctwBatches, ctwRestarts, queue,
                 federation, readOnly, topicWatcher, receiptWaiter>>

\* Watch and listenForEvents up to the loop: WatchBurnEventLogs; when it
\* fails the error is logged and sub.Err() is called on no subscription
EthWatch(subscribed) ==
  /\ tw.pc = "new"
  /\ tw' = [pc |-> IF subscribed THEN "subscribed" ELSE "fatal",
            next |-> Len(credits), received |-> 0]
  /\ UNCHANGED <<consensus, topicStatus, twRestarts, reboots, transferWatcher,
                 federation, readOnly, receiptWaiter>>

\* handleLog: the event is logged
handleLog(eventLog, q) == q

\* the loop of listenForEvents: the next log of the events channel
EthOnEvent ==
  /\ tw.pc = "subscribed"
  /\ tw.next < Len(credits)
  /\ queue' = handleLog(credits[tw.next + 1], queue)
  /\ tw' = [tw EXCEPT !.next = @ + 1, !.received = @ + 1]
  /\ UNCHANGED <<consensus, topicStatus, twRestarts, reboots, credits, accountStatus,
                 ctw, ctwTasks, ctwBatches, ctwRestarts, federation, readOnly,
                 receiptWaiter>>

\* the loop of listenForEvents: the subscription fails; the error is
\* logged and no log arrives after it
EthOnError ==
  /\ tw.pc = "subscribed"
  /\ tw' = [tw EXCEPT !.pc = "returned"]
  /\ UNCHANGED <<consensus, topicStatus, twRestarts, reboots, transferWatcher,
                 federation, readOnly, receiptWaiter>>

NextEthWatcher ==
  \/ \E eventLog \in BurnLogs : BurnEventLog(eventLog)
  \/ \E subscribed \in BOOLEAN : EthWatch(subscribed)
  \/ EthOnEvent
  \/ EthOnError

SpecEthWatcher == Init /\ [][NextEthWatcher]_vars

\* C35: for every Burn log that the watcher has received from the
\* subscription, one E-BurnEvent with the log's account, amount and
\* receiver is on the queue, in the order in which the logs arrived.
BurnEventsPublishedInOrder ==
  [][EthOnEvent =>
       queue' = Append(queue, [type |-> "E-BurnEvent",
                               account |-> credits[tw.next + 1].account,
                               amount |-> credits[tw.next + 1].amount,
                               receiver |-> credits[tw.next + 1].receiver])]_vars


\* the validators' handlers up to the election, and hash messages that
\* announce transactions of any sender
NextHashIngestion ==
  \/ \E n \in Validators, feeOk \in BOOLEAN, accepted \in NoFaults :
       CryptoTransferHandle(n, feeOk, accepted)
  \/ \E n \in Validators : SignatureMinedCallback(n)
  \/ \E n \in Validators : TopicMessageHandle(n)
  \/ \E tx \in ForgedTxs : InjectForged(tx)

SpecHashIngestion == Init /\ [][NextHashIngestion]_vars

\* C36: a hash message handled by a node that has no Transfer row for its
\* transfer is rejected in that step: no row is created, no status changes
\* and no receipt waiter is registered; a signature message is handled only
\* once the row is there.
HashMessageWithoutRowRejected ==
  [][\A n \in Validators :
       HandlesNext(n) =>
         IF topic[cursor'[n]].type = "EthSignature"
         THEN HasRow(transfers[n])
         ELSE ~HasRow(transfers[n])
                => /\ transfers'[n] = NoRow
                   /\ UNCHANGED <<messages, waiters, waitersStarted, mintTask>>]_vars

\* a node without a row has handled a hash message whose transaction is a
\* mint of the bridge contract for the message's transfer
HashMessageHandledWithoutRow ==
  \E n \in Validators :
    /\ ~HasRow(transfers[n])
    /\ cursor[n] > 0
    /\ topic[cursor[n]].type # "EthSignature"
    /\ topic[cursor[n]].ethTxHash \in DOMAIN chain
    /\ chain[topic[cursor[n]].ethTxHash].to = BridgeContractAddress
    /\ chain[topic[cursor[n]].ethTxHash].transferID = topic[cursor[n]].transferID


(***************************************************************************)
(* The lookup loop of the read-only burn handler, turn by turn.  credits   *)
(* holds the token burn transactions of the bridge account that the mirror *)
(* node returns, each with whether its token transfers contain the         *)
(* expected burn, the result of its scheduled transaction and the memo of  *)
(* its schedule.                                                           *)
(***************************************************************************)
BurnTransactions ==
  [contained : BOOLEAN, result : {"SUCCESS", "FAIL"}, memo : {TransferID, "other memo"}]

\* a token burn transaction of the bridge account reaches the mirror node
BurnMirrorTransaction(transaction) ==
  /\ Len(credits) < MaxCredits
  /\ credits' = Append(credits, transaction)
  /\ UNCHANGED <<accountStatus, ctw, ctwTasks, ctwBatches, ctwRestarts, queue,
                 federation, readOnly, topicWatcher, receiptWaiter>>

\* the body of the loop over response.Transactions for one transaction:
\* whether isFound is set for it
IsFound(transaction, scheduled, retrieved, created) ==
  /\ transaction.contained
  /\ scheduled
  /\ transaction.result = "SUCCESS"
  /\ retrieved
  /\ transaction.memo = TransferID
  /\ created

\* one turn of the loop of Handle.  responded: the query of the burn
\* transactions returns no error; when it returns one, the error is logged
\* and the response is read all the same: it is empty, or it is nil and
\* the read ends the process.  scheduled, retrieved, created, updated:
\* GetScheduledTransaction, GetSchedule, scheduleRepository.Create and
\* UpdateStatusCompleted return no error.
BurnLookupTurn(responded, nilResponse, scheduled, retrieved, created, updated) ==
  /\ roPc = "lookup"
  /\ IF ~responded
     THEN /\ roPc' = IF nilResponse THEN "panicked" ELSE "lookup"
          /\ UNCHANGED <<roTransfer, roSchedules>>
     ELSE IF \E k \in 1..Len(credits) : IsFound(credits[k], scheduled, retrieved, created)
          THEN /\ roSchedules' = roSchedules \cup
                    {[transferID |-> TransferID, operation |-> "BURN",
                      status |-> StatusCompleted]}
               /\ roTransfer' = IF updated THEN UpdateStatusCompleted(roTransfer)
                                ELSE roTransfer
               /\ roPc' = "idle"
          ELSE UNCHANGED <<roPc, roTransfer, roSchedules>>
  /\ UNCHANGED <<roDeliveries, federation, watchers>>

NextBurnLookup ==
  \/ BurnHandle
  \/ \E transaction \in BurnTransactions : BurnMirrorTransaction(transaction)
  \/ \E responded \in Faults, nilResponse \in BOOLEAN, scheduled \in Faults,
        retrieved \in Faults, created \in Faults, updated \in Faults :
       BurnLookupTurn(responded, nilResponse, scheduled, retrieved, created, updated)

SpecBurnLookup == Init /\ [][NextBurnLookup]_vars

\* the mirror node holds a burn transaction with a successful scheduled
\* transaction whose schedule memo is the transfer's id
MatchingBurnOnMirror ==
  \E k \in 1..Len(credits) :
    credits[k].contained /\ credits[k].result = "SUCCESS" /\ credits[k].memo = TransferID

BurnScheduleRecorded ==
  [transferID |-> TransferID, operation |-> "BURN", status |-> StatusCompleted]
    \in roSchedules

\* supporting fact: a transfer of the read-only node is Completed only with
\* the Schedule record of a matching burn on the mirror node
CompletedOnlyWithSchedule ==
  roTransfer.status = StatusCompleted => BurnScheduleRecorded /\ MatchingBurnOnMirror

\* C38: the burn handler marks a transfer Completed only after the Schedule
\* record (BURN, Completed, the transfer's id) of a matching successful
\* scheduled transaction was created; and whenever Handle returns from its
\* loop, having found that schedule, the transfer's status is Completed.
CompletedAfterScheduleAndOnReturn ==
  [][/\ (roTransfer.status # StatusCompleted /\ roTransfer'.status = StatusCompleted)
          => BurnScheduleRecorded' /\ MatchingBurnOnMirror
     /\ (roPc = "lookup" /\ roPc' = "idle")
          => roTransfer'.status = StatusCompleted]_vars

\* C39: Handle leaves its lookup loop only by returning with the matching
\* burn found and its Schedule record created; an error of the mirror
\* node or an empty result leaves it in the loop.
LoopEndsOnlyWhenFound ==
  [][roPc = "lookup" /\ roPc' # "lookup"
       => roPc' = "idle" /\ MatchingBurnOnMirror /\ BurnScheduleRecorded']_vars

====
